---- MODULE Spec2Model ----
(***************************************************************************)
(* NavriAIGP-Node: the governance node's policy decision engine            *)
(* (core/policyEngine.ts, api/policiesRoutes.ts), its trace lifecycle and  *)
(* event ledger (core/traceService.ts, api/tracesRoutes.ts) and the store  *)
(* they share (infra/db.ts, migrations/001_initial_schema.sql).            *)
(*                                                                         *)
(* JavaScript values are modelled as follows.  A string is a TLA+ string;  *)
(* `undefined` and JSON/SQL `null` are the two reserved strings Undefined  *)
(* and Null, which no data string equals, so that `!==` is TLA+'s #.  A    *)
(* UUID is the string "u<k>" of the k-th call of randomUUID().  A nullable *)
(* timestamp is <<>> (NULL) or <<t>>.                                      *)
(***************************************************************************)
EXTENDS Integers, Sequences, FiniteSets, TLC

VARIABLES
    pool,          \* infra/db.ts `pool`: Null or "open"
    policies,      \* table policies: a set of rows
    imports,       \* POST /policies/import requests in flight
    traces,        \* table traces: a set of rows
    model_calls,   \* table model_calls
    agent_calls,   \* table agent_calls
    audit_events,  \* table audit_events
    uuids,         \* how many UUIDs randomUUID() has issued
    awaiting,      \* requests suspended at an `await query(...)`
    now,           \* the store's clock, NOW()
    probe,         \* the arguments of the pure function under test
    migrations,    \* table migrations: the names recorded
    applied,       \* how many times the SQL of each file has been committed
    migrators,     \* runs of scripts/migrate.ts and where each of them is
    logger,        \* the level the Logger was constructed with
    last           \* the outcome of the most recent step, as its caller sees it

vars == <<pool, policies, imports, traces, model_calls, agent_calls,
          audit_events, uuids, awaiting, now, probe, migrations, applied,
          migrators, logger, last>>

Undefined == "<undefined>"
Null == "<null>"

----------------------------------------------------------------------------
(* core/types.ts *)

\* The keys of PolicyMatch.
MatchKeys ==
    {"use_case_id", "environment", "agent_id", "intent_name", "risk_level",
     "data_sensitivity", "model"}

\* The optional fields of PolicyDecisionInput.
InputKeys ==
    {"useCaseId", "intentName", "environment", "riskLevel", "agentId",
     "model", "dataSensitivity"}

PolicyEffect ==
    {"allow", "deny", "require_approval", "override_model", "override_agent"}

TraceStatus == {"running", "success", "error", "cancelled"}

----------------------------------------------------------------------------
(* core/policyEngine.ts: matchesPolicy *)

\* matchesPolicy with the comparison against an absent input dropped.
matchesPolicyLenient(match, input) ==
    /\ match.use_case_id # Undefined /\ input.useCaseId # Undefined
          => match.use_case_id = input.useCaseId
    /\ match.environment # Undefined /\ input.environment # Undefined
          => match.environment = input.environment
    /\ match.agent_id # Undefined /\ input.agentId # Undefined
          => match.agent_id = input.agentId
    /\ match.intent_name # Undefined /\ input.intentName # Undefined
          => match.intent_name = input.intentName
    /\ match.risk_level # Undefined /\ input.riskLevel # Undefined
          => match.risk_level = input.riskLevel
    /\ match.data_sensitivity # Undefined /\ input.dataSensitivity # Undefined
          => match.data_sensitivity = input.dataSensitivity
    /\ match.model # Undefined /\ input.model # Undefined
          => match.model = input.model

\* matchesPolicy reading the camelCase agentId of a match as a criterion.
matchesPolicyCamel(match, input) ==
    \A c \in {<<"use_case_id", "useCaseId">>, <<"environment", "environment">>,
              <<"agent_id", "agentId">>, <<"intent_name", "intentName">>,
              <<"risk_level", "riskLevel">>,
              <<"data_sensitivity", "dataSensitivity">>,
              <<"model", "model">>, <<"agentId", "agentId">>} :
        match[c[1]] # Undefined => match[c[1]] = input[c[2]]

matchesPolicy(match, input) ==
    IF match.use_case_id # Undefined /\ match.use_case_id # input.useCaseId
    THEN FALSE
    ELSE IF match.environment # Undefined /\ match.environment # input.environment
    THEN FALSE
    ELSE IF match.agent_id # Undefined /\ match.agent_id # input.agentId
    THEN FALSE
    ELSE IF match.intent_name # Undefined /\ match.intent_name # input.intentName
    THEN FALSE
    ELSE IF match.risk_level # Undefined /\ match.risk_level # input.riskLevel
    THEN FALSE
    ELSE IF match.data_sensitivity # Undefined
            /\ match.data_sensitivity # input.dataSensitivity
    THEN FALSE
    ELSE IF match.model # Undefined /\ match.model # input.model
    THEN FALSE
    ELSE TRUE

----------------------------------------------------------------------------
(* infra/db.ts and the tables of migrations/001_initial_schema.sql *)

\* MaxUuid bounds the calls of randomUUID() in a run.
MaxUuid == 2

\* MaxInFlight bounds the import requests in flight at once.
MaxInFlight == 2

\* crypto.randomUUID() as a generator that repeats itself.
randomUUIDRepeating(k) == "u1"

\* crypto.randomUUID(): a UUID no earlier call returned; the k-th is "u<k>".
randomUUID(k) == "u" \o ToString(k)

\* initDb(): the pool exists from here on.
initDb == "open"

\* What the database server answers to a statement: it runs it ("ok") or the
\* call fails ("error": connection lost, timeout).
DbAnswers == {"ok", "error"}

\* query(text, params) rejects when the pool is not initialised (or closed)
\* and when pool.query rejects; otherwise the statement has run.
queryRejects(db) == pool = Null \/ db = "error"

\* The Error that query throws or hands on: the module's own when there is
\* no pool, the driver's when the call fails, and the server's when the
\* statement violates a constraint of the schema.
QueryError(db) ==
    [message |->
        IF pool = Null
        THEN "Database pool not initialized. Call initDb() first."
        ELSE IF db = "error"
        THEN "Connection terminated unexpectedly"
        ELSE "violates constraint of the schema"]

\* JSON.stringify(value): the JSON text of a value, written <<value>>; a
\* JSONB column holds such a text, or <<>> when it is NULL.
JSONstringify(value) == <<value>>

\* The driver's parse of a JSONB column it reads.
JSONparse(text) == text[1]

\* PRIMARY KEY (id): a row whose id is in the table is refused.
PrimaryKeyOk(table, id) == \A r \in table : r.id # id

\* A trace_id column without its REFERENCES constraint.
ForeignKeyUnchecked(trace_id) == TRUE

\* A reference that only a running trace satisfies.
ForeignKeyRunning(trace_id) ==
    \E t \in traces : t.id = trace_id /\ t.status = "running"

\* REFERENCES traces(id): the referenced trace must exist.
ForeignKeyOk(trace_id) == \E t \in traces : t.id = trace_id

\* The permutations of a finite set, as sequences.
Perms(S) ==
    {f \in [1..Cardinality(S) -> S] :
        \A i, j \in 1..Cardinality(S) : f[i] = f[j] => i = j}

\* ORDER BY priority ASC.
OrderByPriorityAsc(rows) ==
    {f \in Perms(rows) :
        \A i, j \in 1..Len(f) : i < j => f[i].priority <= f[j].priority}

\* A SELECT without ORDER BY: the rows in any order.
OrderByNothing(rows) == Perms(rows)

\* ORDER BY priority DESC: any order of the rows with priorities
\* non-increasing; rows of equal priority come in whatever order the store
\* picks.
OrderByPriorityDesc(rows) ==
    {f \in Perms(rows) :
        \A i, j \in 1..Len(f) : i < j => f[i].priority >= f[j].priority}

\* A row of policies as the driver hands it over: a PolicyRecord, its match
\* and decision parsed.
PolicyRecord(p) ==
    [p EXCEPT !.match = JSONparse(p.match), !.decision = JSONparse(p.decision)]

\* The SELECT under an isolation that hides an import in progress: while an
\* import of the tenant is in flight it reads the rows that import deleted.
SelectPoliciesBeforeImport(tenantId) ==
    LET running == {r \in imports : r.tenantId = tenantId} IN
    OrderByPriorityDesc(
        {PolicyRecord(p) :
            p \in IF running = {}
                  THEN {q \in policies : q.tenant_id = tenantId}
                  ELSE UNION {r.deleted : r \in running}})

\* SELECT ... FROM policies without the WHERE clause.
SelectAllPolicies(tenantId) ==
    OrderByPriorityDesc({PolicyRecord(p) : p \in policies})

\* SELECT ... FROM policies WHERE tenant_id = $1 ORDER BY priority DESC.
SelectPolicies(tenantId) ==
    OrderByPriorityDesc({PolicyRecord(p) : p \in {q \in policies : q.tenant_id = tenantId}})

----------------------------------------------------------------------------
(* core/policyEngine.ts: decide *)

\* A JSONB value that is JSON null rather than an object.
JsonNull == [json |-> "null"]

\* { effect: 'allow' }: a decision with nothing else attached.
AllowDecision ==
    [effect |-> "allow", overrideModel |-> Undefined, overrideAgent |-> Undefined,
     reason |-> Undefined, policyId |-> Undefined, policyName |-> Undefined]

\* { ...policy.decision, policyId: policy.id, policyName: policy.name }
Annotated(policy) ==
    [effect |-> policy.decision.effect,
     overrideModel |-> policy.decision.overrideModel,
     overrideAgent |-> policy.decision.overrideAgent,
     reason |-> policy.decision.reason,
     policyId |-> policy.id,
     policyName |-> policy.name]

\* What the body of decide's try block comes to.
Thrown == [threw |-> TRUE, path |-> "fallback", value |-> AllowDecision]

Returned(path, value) == [threw |-> FALSE, path |-> path, value |-> value]

\* The loop over result.rows: the first row that matches decides; reading a
\* criterion of a match that is JSON null is a TypeError.
RECURSIVE evaluatePolicies(_, _)
evaluatePolicies(rows, input) ==
    IF rows = <<>>
    THEN Returned("default", AllowDecision)
    ELSE LET policy == Head(rows) IN
         IF policy.match = JsonNull
         THEN Thrown
         ELSE IF matchesPolicy(policy.match, input)
         THEN Returned("matched", Annotated(policy))
         ELSE evaluatePolicies(Tail(rows), input)

\* The try block of decide: the query, then the loop.
decideTry(input, rows, db) ==
    IF queryRejects(db) THEN Thrown ELSE evaluatePolicies(rows, input)

\* decide with a catch block that rethrows, as the trace service's do.
decideRethrows(input, rows, db) ==
    LET r == decideTry(input, rows, db) IN
    [outcome |-> IF r.threw THEN "throw" ELSE "return",
     failed |-> r.threw, path |-> r.path, value |-> r.value]

\* decide(input): the try block, and on any error the catch block's
\* { effect: 'allow' }.
decide(input, rows, db) ==
    LET r == decideTry(input, rows, db) IN
    [outcome |-> "return",
     failed |-> r.threw,
     path |-> IF r.threw THEN "fallback" ELSE r.path,
     value |-> IF r.threw THEN AllowDecision ELSE r.value]

----------------------------------------------------------------------------
(* infra/logger.ts: the Logger, and what decide writes with it *)

\* type LogLevel
LogLevel == {"debug", "info", "warn", "error"}

\* LOG_LEVELS: the rank of each level.
LOG_LEVELS == [debug |-> 0, info |-> 1, warn |-> 2, error |-> 3]

\* The values of LOG_LEVEL in the environment: unset, or a LogLevel.
LogLevelEnv == {Undefined} \cup LogLevel

\* constructor: this.level = process.env.LOG_LEVEL || 'info'
NewLogger(env) == IF env \in {Undefined, ""} THEN "info" ELSE env

\* shouldLog(level): LOG_LEVELS[level] >= LOG_LEVELS[this.level]
shouldLog(level) == LOG_LEVELS[level] >= LOG_LEVELS[logger]

\* logger.debug / info / warn / error (message): the call, by its level.
LogCall(level, message) == [level |-> level, message |-> message]

\* The lines the console receives of a sequence of logger calls.
Console(calls) == SelectSeq(calls, LAMBDA c : shouldLog(c.level))

\* The logger calls of query(text, params): none when there is no pool (it
\* throws at once), an error when pool.query rejects, a debug otherwise.
QueryLogCalls(db) ==
    IF pool = Null THEN <<>>
    ELSE IF db = "error" THEN <<LogCall("error", "Database query failed")>>
    ELSE <<LogCall("debug", "Database query executed")>>

\* The logger calls of decide, its query's included: after the query a
\* debug 'Evaluating policies', then an info 'Policy matched' for the row
\* that decides, or a debug 'No policy matched, defaulting to allow'; in
\* the catch block an error 'Failed to evaluate policies'.
DecideLogCalls(input, rows, db) ==
    LET r == decideTry(input, rows, db) IN
    QueryLogCalls(db)
    \o (IF queryRejects(db) THEN <<>>
        ELSE <<LogCall("debug", "Evaluating policies")>>)
    \o (IF r.threw
        THEN <<LogCall("error", "Failed to evaluate policies")>>
        ELSE IF r.path = "matched"
        THEN <<LogCall("info", "Policy matched")>>
        ELSE <<LogCall("debug", "No policy matched, defaulting to allow")>>)

----------------------------------------------------------------------------
(* scripts/migrate.ts: the migration runner *)

\* How many runs of the script may be under way at once.
MaxRunners == 2

Runners == 1..MaxRunners

\* readdir(migrationsDir): the entries of migrations/, numbered files with
\* an extension.
MigrationsDir ==
    {[n |-> 1, ext |-> "sql"], [n |-> 2, ext |-> "sql"], [n |-> 1, ext |-> "md"]}

\* The name of an entry, as in 001_initial_schema.sql.
FileName(entry) == "00" \o ToString(entry.n) \o "." \o entry.ext

\* The names of the .sql entries.
SqlFiles == {FileName(e) : e \in {d \in MigrationsDir : d.ext = "sql"}}

RECURSIVE SortedDescending(_)
\* A sort that puts the greatest name first.
SortedDescending(entries) ==
    IF entries = {} THEN <<>>
    ELSE LET first == CHOOSE e \in entries : \A d \in entries : e.n >= d.n
         IN <<FileName(first)>> \o SortedDescending(entries \ {first})

RECURSIVE SortedByNumber(_)
\* The entries by ascending number, which is the order of their names.
SortedByNumber(entries) ==
    IF entries = {} THEN <<>>
    ELSE LET first == CHOOSE e \in entries : \A d \in entries : e.n <= d.n
         IN <<FileName(first)>> \o SortedByNumber(entries \ {first})

\* getMigrationFiles: files.filter(file => file.endsWith('.sql')).sort()
getMigrationFiles == SortedByNumber({d \in MigrationsDir : d.ext = "sql"})

\* getAppliedMigrations: new Set(result.rows.map(row => row.name))
getAppliedMigrations == migrations

\* A check that finds no migration applied.
hasNever(appliedMigrations, migrationFile) == FALSE

\* appliedMigrations.has(migrationFile)
has(appliedMigrations, migrationFile) == migrationFile \in appliedMigrations

\* name TEXT NOT NULL UNIQUE: a name that is in the table is refused.
UniqueNameOk(name) == name \notin migrations

\* A run that is not under way.
NotRunning ==
    [pc |-> "idle", appliedMigrations |-> {}, migrationFiles |-> <<>>,
     migrationFile |-> "", appliedCount |-> 0, skippedCount |-> 0]

\* Every file has been applied once and recorded, and no run is under way:
\* the database the server is started on.
Migrated ==
    /\ migrations = SqlFiles
    /\ applied = [f \in SqlFiles |-> 1]
    /\ migrators = [r \in Runners |-> NotRunning]

ServerUnchanged ==
    UNCHANGED <<pool, policies, imports, traces, model_calls, agent_calls,
                audit_events, uuids, awaiting, now, probe, logger>>

\* A step of a run as its operator sees it in the log: the file at hand,
\* the counts of the summary so far, and the exit code of the process, or -1
\* while the run goes on.
MigrateStep(r, step, file, exit, aplicadas, puladas) ==
    [op |-> "migrate", runner |-> r, step |-> step, file |-> file,
     exit |-> exit, aplicadas |-> aplicadas, puladas |-> puladas]

\* runMigrations up to its loop: connect, ensureMigrationsTable (CREATE TABLE
\* IF NOT EXISTS), getAppliedMigrations, getMigrationFiles.  A failure ends
\* the process with code 1; an empty directory ends the run.
RunMigrations(r) ==
    \E db \in DbAnswers :
        /\ migrators[r].pc = "idle"
        /\ IF db = "error"
           THEN /\ last' = MigrateStep(r, "connect", "", 1, 0, 0)
                /\ UNCHANGED migrators
           ELSE IF getMigrationFiles = <<>>
           THEN /\ last' = MigrateStep(r, "connect", "", 0, 0, 0)
                /\ UNCHANGED migrators
           ELSE /\ last' = MigrateStep(r, "connect", "", -1, 0, 0)
                /\ migrators' =
                     [migrators EXCEPT ![r] =
                        [pc |-> "loop",
                         appliedMigrations |-> getAppliedMigrations,
                         migrationFiles |-> getMigrationFiles,
                         migrationFile |-> "",
                         appliedCount |-> 0, skippedCount |-> 0]]
        /\ UNCHANGED <<migrations, applied>>
        /\ ServerUnchanged

\* One turn of the loop: a file the run found recorded is skipped; for any
\* other applyMigration reads the file, issues BEGIN and runs its SQL inside
\* the transaction (a failure: ROLLBACK, exit 1).  After the last file the
\* run ends with code 0.
MigrateLoop(r) ==
    \E db \in DbAnswers :
        LET run == migrators[r] IN
        /\ run.pc = "loop"
        /\ IF run.migrationFiles = <<>>
           THEN /\ last' = MigrateStep(r, "done", "", 0, run.appliedCount,
                                        run.skippedCount)
                /\ migrators' = [migrators EXCEPT ![r] = NotRunning]
           ELSE LET migrationFile == Head(run.migrationFiles) IN
                IF has(run.appliedMigrations, migrationFile)
                THEN /\ last' = MigrateStep(r, "skip", migrationFile, -1,
                                             run.appliedCount,
                                             run.skippedCount + 1)
                     /\ migrators' =
                          [migrators EXCEPT ![r] =
                             [run EXCEPT
                                !.migrationFiles = Tail(run.migrationFiles),
                                !.skippedCount = run.skippedCount + 1]]
                ELSE IF db = "error"
                THEN /\ last' = MigrateStep(r, "rollback", migrationFile, 1,
                                             run.appliedCount,
                                             run.skippedCount)
                     /\ migrators' = [migrators EXCEPT ![r] = NotRunning]
                ELSE /\ last' = MigrateStep(r, "begin", migrationFile, -1,
                                             run.appliedCount,
                                             run.skippedCount)
                     /\ migrators' =
                          [migrators EXCEPT ![r] =
                             [run EXCEPT !.pc = "applying",
                                         !.migrationFile = migrationFile]]
        /\ UNCHANGED <<migrations, applied>>
        /\ ServerUnchanged

\* The rest of applyMigration: INSERT INTO migrations and COMMIT, which make
\* the file's SQL and its record permanent together; when the INSERT fails
\* (the name is recorded by now, or the call fails) ROLLBACK undoes the
\* file's SQL and the process ends with code 1.
ApplyMigration(r) ==
    \E db \in DbAnswers :
        LET run == migrators[r]
            migrationName == run.migrationFile
        IN
        /\ run.pc = "applying"
        /\ IF db = "ok" /\ UniqueNameOk(migrationName)
           THEN /\ migrations' = migrations \cup {migrationName}
                /\ applied' = [applied EXCEPT ![migrationName] = @ + 1]
                /\ last' = MigrateStep(r, "commit", migrationName, -1,
                                        run.appliedCount + 1,
                                        run.skippedCount)
                /\ migrators' =
                     [migrators EXCEPT ![r] =
                        [run EXCEPT
                           !.pc = "loop", !.migrationFile = "",
                           !.migrationFiles = Tail(run.migrationFiles),
                           !.appliedCount = run.appliedCount + 1]]
           ELSE /\ last' = MigrateStep(r, "rollback", migrationName, 1,
                                        run.appliedCount,
                                        run.skippedCount)
                /\ migrators' = [migrators EXCEPT ![r] = NotRunning]
                /\ UNCHANGED <<migrations, applied>>
        /\ ServerUnchanged

\* A database on which no migration has run.
InitMigrate ==
    /\ pool = Null
    /\ policies = {} /\ imports = {} /\ traces = {}
    /\ model_calls = {} /\ agent_calls = {} /\ audit_events = {}
    /\ uuids = 0 /\ awaiting = {} /\ now = 0
    /\ probe = [match |-> Undefined, input |-> Undefined]
    /\ migrations = {}
    /\ applied = [f \in SqlFiles |-> 0]
    /\ migrators = [r \in Runners |-> NotRunning]
    /\ last = [op |-> "init"]
    /\ logger = NewLogger(Undefined)

NextMigrate ==
    \E r \in Runners : RunMigrations(r) \/ MigrateLoop(r) \/ ApplyMigration(r)

SpecMigrate == InitMigrate /\ [][NextMigrate]_vars

----------------------------------------------------------------------------
(* The store before any request: the tables as the migration creates them. *)

EmptyStore ==
    /\ policies = {}
    /\ imports = {}
    /\ traces = {}
    /\ model_calls = {}
    /\ agent_calls = {}
    /\ audit_events = {}
    /\ uuids = 0
    /\ awaiting = {}
    /\ Migrated
    /\ now = 0

NoProbe == [match |-> Undefined, input |-> Undefined]

Started == [op |-> "init"]

----------------------------------------------------------------------------
(* SpecMatch: matchesPolicy on every match and input over small values.    *)

\* What a criterion of a stored match may hold (import's z.record(z.any())
\* admits any JSON value): absent, a string, or JSON null.
ProbeMatchValues == {Undefined, "a", Null}

\* What an optional field of a validated decision input may hold
\* (z.string().optional()): absent, the criterion's string, another string.
ProbeInputValues == {Undefined, "a", "b"}

ProbeMatches == [MatchKeys -> ProbeMatchValues]

ProbeInputs ==
    {i \in [InputKeys \cup {"tenantId"} -> ProbeInputValues] : i.tenantId = "a"}

InitMatch ==
    /\ pool = Null
    /\ EmptyStore
    /\ probe \in [match : ProbeMatches, input : ProbeInputs]
    /\ last = Started
    /\ logger = NewLogger(Undefined)

MatchesPolicyCall ==
    /\ last.op = "init"
    /\ last' = [op |-> "matchesPolicy",
                value |-> matchesPolicy(probe.match, probe.input)]
    /\ UNCHANGED <<pool, policies, imports, traces, model_calls, agent_calls,
                   audit_events, uuids, awaiting, now, probe, migrations,
                   applied, migrators, logger>>

NextMatch == MatchesPolicyCall

SpecMatch == InitMatch /\ [][NextMatch]_vars

----------------------------------------------------------------------------
(* api/policiesRoutes.ts: the requests the routes accept *)

Tenants == {"t1", "t2"}

\* The keys a match object of an import may carry: z.record(z.any()) takes
\* any key, such as the camelCase agentId or region.  An object is a function on these
\* keys; a key it does not carry holds Undefined, as a property read gives.
ObjectKeys == MatchKeys \cup {"agentId", "region"}

MatchObject(environment, agent_id) ==
    [k \in ObjectKeys |->
        IF k = "environment" THEN environment
        ELSE IF k = "agent_id" THEN agent_id
        ELSE Undefined]

DecisionObject(effect, overrideAgent, reason) ==
    [effect |-> effect, overrideModel |-> Undefined,
     overrideAgent |-> overrideAgent, reason |-> reason]

RuleApproveDba ==
    [name |-> "approve-dba", priority |-> 10,
     match |-> MatchObject("prd", "agent-dba"),
     decision |-> DecisionObject("require_approval", Undefined, Undefined)]

RuleDenyPrd ==
    [name |-> "deny-prd", priority |-> 20,
     match |-> MatchObject("prd", Undefined),
     decision |-> DecisionObject("deny", Undefined, "prd is frozen")]

RuleRouteDba ==
    [name |-> "route-dba", priority |-> 10,
     match |-> MatchObject(Undefined, "agent-dba"),
     decision |-> DecisionObject("override_agent", "agent-ro", Undefined)]

RuleAllowAll ==
    [name |-> "allow-all", priority |-> 1,
     match |-> MatchObject(Undefined, Undefined),
     decision |-> DecisionObject("allow", Undefined, Undefined)]

\* The rules arrays of the import requests explored.
RuleLists ==
    {<<>>, <<RuleApproveDba>>, <<RuleAllowAll>>,
     <<RuleApproveDba, RuleDenyPrd>>, <<RuleRouteDba, RuleApproveDba>>}

\* Bodies that pass importPoliciesSchema.
ImportBodies == [tenantId : Tenants, version : {"v1"}, rules : RuleLists]

\* Bodies that pass decideSchema: a tenant, and an environment and an agent
\* that are given or left out.
DecideInputs ==
    {[k \in InputKeys \cup {"tenantId"} |->
         IF k = "tenantId" THEN t
         ELSE IF k = "environment" THEN ea[1]
         ELSE IF k = "agentId" THEN ea[2]
         ELSE Undefined] :
       t \in Tenants,
       ea \in {<<"prd", "agent-dba">>, <<"prd", Undefined>>,
               <<"dev", "agent-dba">>, <<Undefined, Undefined>>}}

----------------------------------------------------------------------------
(* The answers of the routes when the call they make throws *)

\* No error body: the answer is the route's own.
NoError == [error |-> Undefined, message |-> Undefined]

\* The catch block of the trace and policy routes:
\* { error: 'Internal server error', message: error.message }
InternalServerError(error) ==
    [error |-> "Internal server error", message |-> error.message]

\* The body of the answer as far as errors go: the catch block's for a
\* call that threw.
ErrorBody(result, db) ==
    IF result.outcome = "return" THEN NoError
    ELSE InternalServerError(QueryError(db))

----------------------------------------------------------------------------
(* Steps of the policy routes and of the pool's life cycle *)

\* DELETE ... RETURNING in place of a SELECT: the rows read are gone.
DeleteReturning ==
    /\ policies' = {}
    /\ traces' = {}
    /\ UNCHANGED <<model_calls, agent_calls, audit_events>>

\* The statements of decide and of getOverviewStats are SELECTs: no table
\* is written.
SelectOnly ==
    UNCHANGED <<policies, traces, model_calls, agent_calls, audit_events>>

TraceTablesUnchanged ==
    UNCHANGED <<traces, model_calls, agent_calls, audit_events, awaiting, now,
                probe, migrations,
                   applied, migrators, logger>>

\* initDb()
InitDb ==
    /\ pool' = initDb
    /\ last' = [op |-> "initDb"]
    /\ UNCHANGED <<policies, imports, uuids>>
    /\ TraceTablesUnchanged

\* closeDb(): pool.end() returns once the statements in flight have ended.
CloseDb ==
    /\ pool # Null
    /\ imports = {}
    /\ pool' = Null
    /\ last' = [op |-> "closeDb"]
    /\ UNCHANGED <<policies, imports, uuids>>
    /\ TraceTablesUnchanged

\* decide(input): one SELECT, then the evaluation of its rows.  `rejected`
\* and `rows` record what the store answered.
DecideOn(input) ==
    \E db \in DbAnswers :
    \E rows \in SelectPolicies(input.tenantId) :
        /\ last' = [op |-> "decide", input |-> input,
                    status |-> 200, body |-> NoError,
                    rejected |-> queryRejects(db),
                    rows |-> IF queryRejects(db) THEN <<>> ELSE rows,
                    console |-> Console(DecideLogCalls(input, rows, db))]
                      @@ decide(input, rows, db)
        /\ SelectOnly
        /\ UNCHANGED <<pool, imports, uuids, awaiting, now, probe, migrations,
                       applied, migrators, logger>>

\* POST /policies/decide with a body that passes decideSchema.
Decide == \E input \in DecideInputs : DecideOn(input)

\* An INSERT that stores every rule under priority 0.
InsertOfUnranked(body, i) ==
    [id |-> randomUUID(uuids + i),
     tenant_id |-> body.tenantId,
     name |-> body.rules[i].name,
     priority |-> 0,
     match |-> JSONstringify(body.rules[i].match),
     decision |-> JSONstringify(body.rules[i].decision)]

\* The parameters of the INSERT of body.rules[i]; its policyId is the i-th
\* UUID drawn by this request.
InsertOf(body, i) ==
    [id |-> randomUUID(uuids + i),
     tenant_id |-> body.tenantId,
     name |-> body.rules[i].name,
     priority |-> body.rules[i].priority,
     match |-> JSONstringify(body.rules[i].match),
     decision |-> JSONstringify(body.rules[i].decision)]

\* DELETE FROM policies, without its WHERE clause.
DeleteEveryPolicy(tenantId) == {}

\* DELETE FROM policies WHERE tenant_id = $1
DeleteTenantPolicies(tenantId) == {p \in policies : p.tenant_id # tenantId}

\* What an import request in flight carries: its body's rules, the INSERTs
\* it issued (stmts) and those still running (pending), and whether it has
\* answered.  `deleted` keeps the rows its DELETE removed and `overlapped`
\* that another import of the same tenant was in flight during this one.
ImportRequest(body, stmts, deleted, overlapped) ==
    [tenantId |-> body.tenantId, rules |-> body.rules,
     count |-> Len(body.rules), stmts |-> stmts, pending |-> stmts,
     deleted |-> deleted, overlapped |-> overlapped, responded |-> FALSE,
     peers |-> {}]

\* The INSERTs of a request, by the ids of their rows.
IdsOf(req) == {st.id : st \in req.stmts}

\* What a request keeps of an import of its tenant that was in flight
\* during it: the ids of its rows, whether the DELETEs of both had run
\* before any INSERT of either (raced), and the status it answered, 0 while
\* it has not.
Peer(ids, raced, status) == [ids |-> ids, raced |-> raced, status |-> status]

\* No INSERT of the request has run yet.
NothingInserted(req) == req.pending = req.stmts /\ ~req.responded

\* The request once another import of its tenant has run its DELETE.
Overlapped(r, ids, status) ==
    [r EXCEPT !.overlapped = TRUE,
              !.peers = @ \cup {Peer(ids, NothingInserted(r), status)}]

\* The request once the import with these ids has answered.
Told(r, ids, status) ==
    [r EXCEPT !.peers = {IF p.ids = ids /\ p.status = 0
                         THEN [p EXCEPT !.status = status] ELSE p : p \in @}]

\* The answer of POST /policies/import, as the caller sees it, and what the
\* request had done by then.
ImportAnswer(req, status, phase, db) ==
    [op |-> "import", tenantId |-> req.tenantId, status |-> status,
     body |-> IF status = 500 THEN InternalServerError(QueryError(db))
              ELSE NoError,
     importedCount |-> IF status = 201 THEN req.count ELSE 0,
     phase |-> phase, rules |-> req.rules,
     ids |-> {st.id : st \in req.stmts},
     deleted |-> req.deleted, overlapped |-> req.overlapped,
     peers |-> req.peers]

\* POST /policies/import up to the issue of its INSERTs: the DELETE runs (or
\* fails: 500), then every rule's INSERT is issued at once; with no rule,
\* Promise.all([]) resolves and the answer is 201.
ImportBeginOn(body) ==
    \E db \in DbAnswers :
        LET others == {r \in imports : r.tenantId = body.tenantId}
            stmts == {InsertOf(body, i) : i \in 1..Len(body.rules)}
            deleted == policies \ DeleteTenantPolicies(body.tenantId)
            ids == {st.id : st \in stmts}
            req == [ImportRequest(body, stmts, deleted, others # {})
                      EXCEPT !.peers =
                         {Peer(IdsOf(r), NothingInserted(r),
                               IF r.responded THEN 500 ELSE 0) :
                             r \in others}]
        IN
        /\ uuids + Len(body.rules) <= MaxUuid
        /\ Cardinality(imports) < MaxInFlight
        /\ IF queryRejects(db)
           THEN /\ last' = ImportAnswer(
                              ImportRequest(body, {}, {}, others # {}),
                              500, "delete", db)
                /\ UNCHANGED <<policies, imports, uuids>>
           ELSE /\ policies' = DeleteTenantPolicies(body.tenantId)
                /\ uuids' = uuids + Len(body.rules)
                /\ IF body.rules = <<>>
                   THEN /\ last' = ImportAnswer(req, 201, "insert", db)
                        /\ imports' =
                              {IF r \in others
                               THEN Overlapped(r, ids, 201) ELSE r :
                                  r \in imports}
                   ELSE /\ last' = [op |-> "importDelete",
                                    tenantId |-> body.tenantId,
                                    rules |-> body.rules,
                                    ids |-> {st.id : st \in stmts}]
                        /\ imports' =
                              {IF r \in others
                               THEN Overlapped(r, ids, 0) ELSE r :
                                  r \in imports}
                              \cup {req}
        /\ UNCHANGED pool
        /\ TraceTablesUnchanged

\* POST /policies/import with a body that passes importPoliciesSchema.
ImportBegin == \E body \in ImportBodies : ImportBeginOn(body)

\* The catch block of the route with a ROLLBACK in it: the rows the request
\* inserted are removed and those it deleted are back.
RolledBack(req) ==
    {p \in policies : \A st \in req.stmts : st.id # p.id} \cup req.deleted

\* The table after an INSERT of the request has failed: the catch block
\* answers 500 and undoes nothing.
AfterInsertFailed(req) == policies

\* An INSERT that first clears the rows of the rule's tenant.
InsertPolicyOverTenant(stmt) ==
    {p \in policies : p.tenant_id # stmt.tenant_id}
        \cup {stmt @@ [created_at |-> now, updated_at |-> now]}

\* INSERT INTO policies (id, tenant_id, name, priority, match, decision,
\* created_at, updated_at) VALUES ($1, ..., $6, NOW(), NOW())
InsertPolicy(stmt) ==
    policies \cup {stmt @@ [created_at |-> now, updated_at |-> now]}

\* One INSERT of an import in flight ends.  When it fails, Promise.all
\* rejects and the request is answered 500, while its other INSERTs still
\* run; when the last one succeeds and none failed, the answer is 201.
ImportInsert ==
    \E req \in imports, db \in DbAnswers :
    \E stmt \in req.pending :
        LET ok == ~queryRejects(db) /\ PrimaryKeyOk(policies, stmt.id)
            left == req.pending \ {stmt}
            answers == ~req.responded /\ (~ok \/ left = {})
        IN
        /\ policies' = IF ok
                       THEN InsertPolicy(stmt)
                       ELSE AfterInsertFailed(req)
        /\ imports' =
              {IF answers
               THEN Told(r, IdsOf(req), IF ok THEN 201 ELSE 500) ELSE r :
                  r \in imports \ {req}} \cup
              (IF left = {}
               THEN {}
               ELSE {[req EXCEPT !.pending = left,
                                 !.responded = req.responded \/ ~ok]})
        /\ last' = IF answers
                   THEN ImportAnswer(req, IF ok THEN 201 ELSE 500, "insert",
                                     db)
                   ELSE [op |-> "importInsert", tenantId |-> req.tenantId]
        /\ UNCHANGED <<pool, uuids>>
        /\ TraceTablesUnchanged

InitPolicy ==
    /\ pool = Null
    /\ EmptyStore
    /\ probe = NoProbe
    /\ last = Started
    /\ logger = NewLogger(Undefined)

NextPolicy == InitDb \/ CloseDb \/ Decide \/ ImportBegin \/ ImportInsert

SpecPolicy == InitPolicy /\ [][NextPolicy]_vars

\* The policy routes under a Logger of any level: LOG_LEVEL is unset or
\* names one of the four levels when the process starts.
InitLog ==
    /\ pool = Null
    /\ EmptyStore
    /\ probe = NoProbe
    /\ last = Started
    /\ logger \in {NewLogger(env) : env \in LogLevelEnv}

SpecLog == InitLog /\ [][NextPolicy]_vars

\* A row of tenant t1 that another client of the database wrote: its match
\* is JSON null, which the column (JSONB NOT NULL) admits.
ForeignRow ==
    [id |-> "u0", tenant_id |-> "t1", name |-> "legacy", priority |-> 15,
     match |-> JSONstringify(JsonNull),
     decision |-> JSONstringify(DecisionObject("deny", Undefined, Undefined)),
     created_at |-> 0, updated_at |-> 0]

\* A well-formed row of tenant t1 from the same client: it matches every
\* input and has the lowest priority.
ForeignCatchAll ==
    [id |-> "u0b", tenant_id |-> "t1", name |-> "legacy-default",
     priority |-> 1,
     match |-> JSONstringify(MatchObject(Undefined, Undefined)),
     decision |-> JSONstringify(DecisionObject("deny", Undefined, Undefined)),
     created_at |-> 0, updated_at |-> 0]

\* The policy routes over a database that holds the foreign rows.
InitForeign ==
    /\ pool = Null
    /\ policies = {ForeignRow, ForeignCatchAll}
    /\ imports = {}
    /\ traces = {}
    /\ model_calls = {}
    /\ agent_calls = {}
    /\ audit_events = {}
    /\ uuids = 0
    /\ awaiting = {}
    /\ Migrated
    /\ now = 0
    /\ probe = NoProbe
    /\ last = Started
    /\ logger = NewLogger(Undefined)

SpecForeign == InitForeign /\ [][NextPolicy]_vars

----------------------------------------------------------------------------
(* core/traceService.ts *)

\* A text is a character repeated: [ch |-> c, len |-> n] is c written n
\* times.  text.substring(0, end) is its first end characters.
Min(a, b) == IF a <= b THEN a ELSE b

\* A substring that hands the text back whole.
substringWhole(text, end) == text

substring(text, end) == [ch |-> text.ch, len |-> Min(text.len, end)]

\* The effect of an INSERT that overwrites the table.
InsertReplacing(table, row) == {row}

\* The effect of an INSERT that never reaches the table.
InsertDropped(table, row) == table

\* The effect of INSERT INTO table VALUES (row).
InsertRow(table, row) == table \cup {row}

\* A function that answers its caller whether or not its query was rejected.
ReturnsAnyway(rejected, value) == [outcome |-> "return", value |-> value]

\* try { await query(...); return value } catch (error) { throw error }:
\* what startTrace, logModelCall, logAgentCall, logAuditEvent and endTrace
\* hand their caller.
ReturnOrRethrow(rejected, value) ==
    IF rejected
    THEN [outcome |-> "throw", value |-> Undefined]
    ELSE [outcome |-> "return", value |-> value]

\* The row startTrace inserts with its ended_at set at once.
TraceRowEnded(traceId, meta) ==
    [id |-> traceId, tenant_id |-> meta.tenantId,
     intent_name |-> meta.intentName, use_case_id |-> meta.useCaseId,
     risk_level |-> meta.riskLevel, data_sensitivity |-> meta.dataSensitivity,
     environment |-> meta.environment, created_at |-> now,
     ended_at |-> <<now>>, status |-> "running", result_summary |-> <<>>]

\* The row startTrace inserts: the columns it gives, created_at = NOW(),
\* status 'running', and the defaults of the others (ended_at and
\* result_summary NULL).
TraceRow(traceId, meta) ==
    [id |-> traceId, tenant_id |-> meta.tenantId,
     intent_name |-> meta.intentName, use_case_id |-> meta.useCaseId,
     risk_level |-> meta.riskLevel, data_sensitivity |-> meta.dataSensitivity,
     environment |-> meta.environment, created_at |-> now,
     ended_at |-> <<>>, status |-> "running", result_summary |-> <<>>]

\* The row logModelCall inserts.  An optional number is <<n>>, or <<>> when
\* it is absent: log.tokensInput ?? null.
ModelCallRow(modelCallId, traceId, log) ==
    [id |-> modelCallId, trace_id |-> traceId, provider |-> log.provider,
     model |-> log.model, step_name |-> log.stepName,
     prompt |-> substring(log.prompt, 10000),
     response |-> substring(log.response, 10000),
     tokens_input |-> log.tokensInput,
     tokens_output |-> log.tokensOutput,
     latency_ms |-> log.latencyMs, created_at |-> now]

\* The row logAgentCall inserts.
AgentCallRow(agentCallId, traceId, log) ==
    [id |-> agentCallId, trace_id |-> traceId, agent_id |-> log.agentId,
     domain |-> log.domain, operation |-> log.operation,
     request |-> JSONstringify(log.request),
     response |-> JSONstringify(log.response),
     status_code |-> log.statusCode, latency_ms |-> log.latencyMs,
     created_at |-> now]

\* The row logAuditEvent inserts.
AuditEventRow(auditEventId, traceId, log) ==
    [id |-> auditEventId, trace_id |-> traceId, event_type |-> log.eventType,
     payload |-> JSONstringify(log.payload), created_at |-> now]

\* resultSummary ? JSON.stringify(resultSummary) : null
SummaryParam(resultSummary) ==
    IF resultSummary = Undefined THEN <<>> ELSE JSONstringify(resultSummary)

\* The UPDATE without its WHERE clause: every trace is ended.
UpdateEveryTrace(traceId, status, summary) ==
    {[t EXCEPT !.ended_at = <<now>>, !.status = status,
               !.result_summary = summary] : t \in traces}

\* UPDATE traces SET ended_at = NOW(), status = $1, result_summary = $2
\* WHERE id = $3
UpdateTraceEnd(traceId, status, summary) ==
    {IF t.id = traceId
     THEN [t EXCEPT !.ended_at = <<now>>, !.status = status,
                    !.result_summary = summary]
     ELSE t : t \in traces}

----------------------------------------------------------------------------
(* api/tracesRoutes.ts: the requests the routes accept, and their steps *)

\* MaxTime bounds the ticks of the store's clock in a run.
MaxTime == 1

TraceMeta(tenantId, useCaseId, environment) ==
    [tenantId |-> tenantId, intentName |-> "migrate", useCaseId |-> useCaseId,
     riskLevel |-> "high", dataSensitivity |-> "pii",
     environment |-> environment]

\* Bodies that pass startTraceSchema.
StartBodies ==
    {TraceMeta("t1", "uc1", "prd"), TraceMeta("t2", "uc2", "dev")}

\* Model calls that pass modelCallSchema (their traceId apart): a short
\* prompt with a response one character over the limit, one token count left
\* out; and a prompt of exactly the limit with a response twice as long.
ModelCallLogs ==
    {[provider |-> "openai", model |-> "gpt-4", stepName |-> "plan",
      prompt |-> [ch |-> "p", len |-> 12],
      response |-> [ch |-> "r", len |-> 10001],
      tokensInput |-> <<7>>, tokensOutput |-> <<>>, latencyMs |-> 40],
     [provider |-> "openai", model |-> "gpt-4", stepName |-> "plan",
      prompt |-> [ch |-> "p", len |-> 10000],
      response |-> [ch |-> "r", len |-> 20000],
      tokensInput |-> <<7>>, tokensOutput |-> <<>>, latencyMs |-> 40]}

\* An agent call that passes agentCallSchema (its traceId apart).
AgentCallLogs ==
    {[agentId |-> "agent-dba", domain |-> "database",
      operation |-> "apply-migration", request |-> "{\"dry\":true}",
      response |-> "{}", statusCode |-> 200, latencyMs |-> 15]}

\* An audit event that passes auditEventSchema (its traceId apart).
AuditEventLogs == {[eventType |-> "approval", payload |-> "{\"by\":\"ops\"}"]}

\* The traceId of a body that passes z.string().uuid(): the id of a stored
\* trace, or a UUID that no call of randomUUID() returns.
TraceIds == {t.id : t \in traces} \cup {randomUUID(MaxUuid + 1)}

\* The status and resultSummary of bodies that pass endTraceSchema, whose
\* status is z.enum(['running', 'success', 'error', 'cancelled']): the
\* initial status, a terminal one with a summary and one without.  The
\* UPDATE treats 'cancelled' as it treats 'error'.
EndBodies ==
    {[status |-> "running", resultSummary |-> Undefined],
     [status |-> "success", resultSummary |-> "{\"rows\":3}"],
     [status |-> "error", resultSummary |-> Undefined]}

\* res.status(...): the success status of the route, or 500 from its catch.
Responds(result, success) ==
    IF result.outcome = "return" THEN success ELSE 500

PolicyTablesUnchanged == UNCHANGED <<policies, imports, awaiting, probe, migrations,
                   applied, migrators, logger>>

\* Time passes.
Tick ==
    /\ now < MaxTime
    /\ now' = now + 1
    /\ last' = [op |-> "tick"]
    /\ UNCHANGED <<pool, traces, model_calls, agent_calls, audit_events, uuids>>
    /\ PolicyTablesUnchanged

\* POST /traces/start: startTrace(meta).
StartTraceOn(meta) ==
    \E db \in DbAnswers :
        LET traceId == randomUUID(uuids + 1)
            row == TraceRow(traceId, meta)
            rejected == queryRejects(db) \/ ~PrimaryKeyOk(traces, row.id)
            result == ReturnOrRethrow(rejected, [traceId |-> traceId])
        IN
        /\ uuids < MaxUuid
        /\ uuids' = uuids + 1
        /\ traces' = IF rejected THEN traces ELSE InsertRow(traces, row)
        /\ last' = [op |-> "startTrace", meta |-> meta, rejected |-> rejected,
                    status |-> Responds(result, 201),
                    body |-> ErrorBody(result, db)] @@ result
        /\ UNCHANGED <<pool, model_calls, agent_calls, audit_events, now>>
        /\ PolicyTablesUnchanged

\* POST /traces/start with a body that passes startTraceSchema.
StartTrace == \E meta \in StartBodies : StartTraceOn(meta)

\* POST /traces/model-call: logModelCall(traceId, log).
LogModelCallOn(traceId, log) ==
    \E db \in DbAnswers :
        LET row == ModelCallRow(randomUUID(uuids + 1), traceId, log)
            rejected == \/ queryRejects(db)
                        \/ ~PrimaryKeyOk(model_calls, row.id)
                        \/ ~ForeignKeyOk(row.trace_id)
            result == ReturnOrRethrow(rejected, Undefined)
        IN
        /\ uuids < MaxUuid
        /\ uuids' = uuids + 1
        /\ model_calls' = IF rejected THEN model_calls
                          ELSE InsertRow(model_calls, row)
        /\ last' = [op |-> "logModelCall", traceId |-> traceId,
                    log |-> log, rejected |-> rejected,
                    status |-> Responds(result, 201),
                    body |-> ErrorBody(result, db)] @@ result
        /\ UNCHANGED <<pool, traces, agent_calls, audit_events, now>>
        /\ PolicyTablesUnchanged

\* POST /traces/model-call with a body that passes modelCallSchema.
LogModelCall ==
    \E traceId \in TraceIds, log \in ModelCallLogs :
        LogModelCallOn(traceId, log)

\* POST /traces/agent-call: logAgentCall(traceId, log).
LogAgentCall ==
    \E traceId \in TraceIds, log \in AgentCallLogs, db \in DbAnswers :
        LET row == AgentCallRow(randomUUID(uuids + 1), traceId, log)
            rejected == \/ queryRejects(db)
                        \/ ~PrimaryKeyOk(agent_calls, row.id)
                        \/ ~ForeignKeyOk(row.trace_id)
            result == ReturnOrRethrow(rejected, Undefined)
        IN
        /\ uuids < MaxUuid
        /\ uuids' = uuids + 1
        /\ agent_calls' = IF rejected THEN agent_calls
                          ELSE InsertRow(agent_calls, row)
        /\ last' = [op |-> "logAgentCall", traceId |-> traceId,
                    rejected |-> rejected,
                    status |-> Responds(result, 201),
                    body |-> ErrorBody(result, db)] @@ result
        /\ UNCHANGED <<pool, traces, model_calls, audit_events, now>>
        /\ PolicyTablesUnchanged

\* POST /traces/audit: logAuditEvent(traceId, log).
LogAuditEvent ==
    \E traceId \in TraceIds, log \in AuditEventLogs, db \in DbAnswers :
        LET row == AuditEventRow(randomUUID(uuids + 1), traceId, log)
            rejected == \/ queryRejects(db)
                        \/ ~PrimaryKeyOk(audit_events, row.id)
                        \/ ~ForeignKeyOk(row.trace_id)
            result == ReturnOrRethrow(rejected, Undefined)
        IN
        /\ uuids < MaxUuid
        /\ uuids' = uuids + 1
        /\ audit_events' = IF rejected THEN audit_events
                           ELSE InsertRow(audit_events, row)
        /\ last' = [op |-> "logAuditEvent", traceId |-> traceId,
                    rejected |-> rejected,
                    status |-> Responds(result, 201),
                    body |-> ErrorBody(result, db)] @@ result
        /\ UNCHANGED <<pool, traces, model_calls, agent_calls, now>>
        /\ PolicyTablesUnchanged

\* POST /traces/end: endTrace(traceId, status, resultSummary).  The UPDATE
\* carries no condition on the row's current status, and succeeds when no
\* row has the id.
EndTraceOn(traceId, body) ==
    \E db \in DbAnswers :
        LET rejected == queryRejects(db)
            result == ReturnOrRethrow(rejected, Undefined)
        IN
        /\ traces' = IF rejected THEN traces
                     ELSE UpdateTraceEnd(traceId, body.status,
                                         SummaryParam(body.resultSummary))
        /\ last' = [op |-> "endTrace", traceId |-> traceId,
                    rejected |-> rejected,
                    status |-> Responds(result, 200),
                    body |-> ErrorBody(result, db)] @@ result
        /\ UNCHANGED <<pool, model_calls, agent_calls, audit_events, uuids, now>>
        /\ PolicyTablesUnchanged

\* POST /traces/end with a body that passes endTraceSchema.
EndTrace ==
    \E traceId \in TraceIds, body \in EndBodies : EndTraceOn(traceId, body)

\* The trace routes are served once startServer has called initDb(), and
\* closeDb() is followed by the exit of the process.
InitTrace ==
    /\ pool = initDb
    /\ EmptyStore
    /\ probe = NoProbe
    /\ last = Started
    /\ logger = NewLogger(Undefined)

NextTrace ==
    \/ Tick
    \/ StartTrace \/ LogModelCall \/ LogAgentCall \/ LogAuditEvent \/ EndTrace

SpecTrace == InitTrace /\ [][NextTrace]_vars

\* The ledger of one trace: the store holds a running trace that an earlier
\* run of the server started, and the requests are the three log routes.
InitLedger ==
    /\ pool = initDb
    /\ policies = {}
    /\ imports = {}
    /\ now = 0
    /\ traces = {TraceRow(randomUUID(0), TraceMeta("t1", "uc1", "prd"))}
    /\ model_calls = {}
    /\ agent_calls = {}
    /\ audit_events = {}
    /\ uuids = 0
    /\ awaiting = {}
    /\ Migrated
    /\ probe = NoProbe
    /\ last = Started
    /\ logger = NewLogger(Undefined)

NextLedger == Tick \/ LogModelCall \/ LogAgentCall \/ LogAuditEvent

SpecLedger == InitLedger /\ [][NextLedger]_vars

----------------------------------------------------------------------------
(* Log calls that overlap: each of logModelCall, logAgentCall and          *)
(* logAuditEvent draws its UUID and is then suspended at its one            *)
(* `await query(insertQuery, ...)` until the store has run the INSERT.      *)

\* The log of each log route.
LogsOf(op) ==
    IF op = "logModelCall" THEN ModelCallLogs
    ELSE IF op = "logAgentCall" THEN AgentCallLogs
    ELSE AuditEventLogs

\* A log function is called: it draws the id of its row and issues the
\* INSERT.  `raced` records that another call for the same trace was in
\* flight during this one.
LogIssue ==
    \E op \in {"logModelCall", "logAgentCall", "logAuditEvent"} :
    \E traceId \in TraceIds, log \in LogsOf(op) :
        LET others == {c \in awaiting :
                          c.op # "overview" /\ c.traceId = traceId} IN
        /\ uuids < MaxUuid
        /\ uuids' = uuids + 1
        /\ awaiting' =
              {IF c \in others THEN [c EXCEPT !.raced = TRUE] ELSE c :
                  c \in awaiting}
              \cup {[op |-> op, traceId |-> traceId, log |-> log,
                     id |-> randomUUID(uuids + 1), raced |-> others # {}]}
        /\ last' = [op |-> "logIssue", traceId |-> traceId]
        /\ UNCHANGED <<pool, policies, imports, traces, model_calls,
                       agent_calls, audit_events, now, probe, migrations,
                   applied, migrators, logger>>

\* The store runs (or fails) the INSERT of a call in flight, and the call
\* returns or rethrows.  `storeFailed` records that query rejected for want
\* of a pool or of an answer, rather than on a constraint.
LogSettle ==
    \E call \in {c \in awaiting : c.op # "overview"}, db \in DbAnswers :
        LET table == IF call.op = "logModelCall" THEN model_calls
                     ELSE IF call.op = "logAgentCall" THEN agent_calls
                     ELSE audit_events
            rejected == \/ queryRejects(db)
                        \/ ~PrimaryKeyOk(table, call.id)
                        \/ ~ForeignKeyOk(call.traceId)
            result == ReturnOrRethrow(rejected, Undefined)
        IN
        /\ awaiting' = awaiting \ {call}
        /\ model_calls' =
              IF call.op = "logModelCall" /\ ~rejected
              THEN InsertRow(model_calls,
                             ModelCallRow(call.id, call.traceId, call.log))
              ELSE model_calls
        /\ agent_calls' =
              IF call.op = "logAgentCall" /\ ~rejected
              THEN InsertRow(agent_calls,
                             AgentCallRow(call.id, call.traceId, call.log))
              ELSE agent_calls
        /\ audit_events' =
              IF call.op = "logAuditEvent" /\ ~rejected
              THEN InsertRow(audit_events,
                             AuditEventRow(call.id, call.traceId, call.log))
              ELSE audit_events
        /\ last' = [op |-> call.op, traceId |-> call.traceId, id |-> call.id,
                    raced |-> call.raced, rejected |-> rejected,
                    storeFailed |-> queryRejects(db),
                    status |-> Responds(result, 201),
                    body |-> ErrorBody(result, db)] @@ result
        /\ UNCHANGED <<pool, policies, imports, traces, uuids, now, probe, migrations,
                   applied, migrators, logger>>

NextRace == Tick \/ LogIssue \/ LogSettle

\* Overlapping log calls on the ledger of a stored trace.
SpecRace == InitLedger /\ [][NextRace]_vars

----------------------------------------------------------------------------
(* core/statsService.ts: getOverviewStats *)

\* 7 * 24 * 60 * 60 * 1000 ms: the default window, in days, the unit of the
\* clock.
SevenDays == 7

\* `if (environment)`, `to || ...`: undefined and the empty string are falsy.
Truthy(v) == v \notin {Undefined, ""}

\* Date.prototype.toISOString(): the text of an instant.
toISOString(t) == "T" \o ToString(t)

\* defaultFrom and defaultTo: the given instants (<<t>>), or the last seven
\* days up to now.
DefaultWindow(input) ==
    [from |-> IF input.from = <<>> THEN now - SevenDays ELSE input.from[1],
     to |-> IF input.to = <<>> THEN now ELSE input.to[1]]

\* A WHERE clause that leaves out the traces that have been ended.
WhereClauseRunning(t, input, window) ==
    /\ t.status = "running"
    /\ t.tenant_id = input.tenantId
    /\ t.created_at >= window.from
    /\ t.created_at <= window.to
    /\ Truthy(input.environment) => t.environment = input.environment

\* whereClause: conditions.join(' AND ').
WhereClause(t, input, window) ==
    /\ t.tenant_id = input.tenantId
    /\ t.created_at >= window.from
    /\ t.created_at <= window.to
    /\ Truthy(input.environment) => t.environment = input.environment

\* The side of a LEFT JOIN for one trace: the ids of its events, or one NULL
\* when it has none.
LeftJoin(ids) == IF ids = {} THEN {Null} ELSE ids

\* FROM traces t LEFT JOIN model_calls mc ON mc.trace_id = t.id
\*               LEFT JOIN agent_calls ac ON ac.trace_id = t.id
\* WHERE whereClause: one row per trace, model call and agent call of it.
JoinRows(input, window) ==
    UNION {{[t_id |-> t.id, use_case_id |-> t.use_case_id,
             created_at |-> t.created_at, mc_id |-> m, ac_id |-> a] :
               m \in LeftJoin({c.id : c \in {x \in model_calls :
                                                 x.trace_id = t.id}}),
               a \in LeftJoin({c.id : c \in {x \in agent_calls :
                                                 x.trace_id = t.id}})} :
             t \in {x \in traces : WhereClause(x, input, window)}}

\* COUNT(col): the joined rows whose col is not NULL.
CountAll(rows, col) == Cardinality({r \in rows : r[col] # Null})

\* COUNT(DISTINCT col): the values of col that are not NULL.
CountDistinct(rows, col) == Cardinality({r[col] : r \in rows} \ {Null})

\* The driver hands a COUNT (a bigint) over as its decimal text.
BigintText(n) == ToString(n)

\* parseInt(String(value || '0'), 10)
parseInt(text) == CHOOSE n \in 0..999 : ToString(n) = text

\* MAX(t.created_at)
MaxCreatedAt(rows) ==
    CHOOSE m \in {r.created_at : r \in rows} :
        \A r \in rows : r.created_at <= m

\* Query 1 and the StatsSummary made of its row.
StatsSummary(input, window) ==
    LET rows == JoinRows(input, window)
        row == [total_traces |-> BigintText(CountDistinct(rows, "t_id")),
                total_model_calls |-> BigintText(CountDistinct(rows, "mc_id")),
                total_agent_calls |-> BigintText(CountDistinct(rows, "ac_id"))]
    IN [totalTraces |-> parseInt(row.total_traces),
        totalModelCalls |-> parseInt(row.total_model_calls),
        totalAgentCalls |-> parseInt(row.total_agent_calls)]

\* Query 2 with COUNT(col) for COUNT(DISTINCT col).
UseCaseStatsPerRow(input, window) ==
    LET rows == JoinRows(input, window) IN
    {LET group == {r \in rows : r.use_case_id = g}
     IN [useCaseId |-> g,
         traces |-> parseInt(BigintText(CountAll(group, "t_id"))),
         modelCalls |-> parseInt(BigintText(CountAll(group, "mc_id"))),
         agentCalls |-> parseInt(BigintText(CountAll(group, "ac_id"))),
         lastTraceAt |-> toISOString(MaxCreatedAt(group))] :
       g \in {r.use_case_id : r \in rows}}

\* Query 2, GROUP BY t.use_case_id, and the UseCaseStats made of each row.
UseCaseStats(input, window) ==
    LET rows == JoinRows(input, window) IN
    {LET group == {r \in rows : r.use_case_id = g}
         row == [use_case_id |-> g,
                 traces |-> BigintText(CountDistinct(group, "t_id")),
                 model_calls |-> BigintText(CountDistinct(group, "mc_id")),
                 agent_calls |-> BigintText(CountDistinct(group, "ac_id")),
                 last_trace_at |-> MaxCreatedAt(group)]
     IN [useCaseId |-> row.use_case_id,
         traces |-> parseInt(row.traces),
         modelCalls |-> parseInt(row.model_calls),
         agentCalls |-> parseInt(row.agent_calls),
         lastTraceAt |-> toISOString(row.last_trace_at)] :
       g \in {r.use_case_id : r \in rows}}

\* ORDER BY traces DESC: groups of equal count come in any order.
OrderByTracesDesc(groups) ==
    {f \in Perms(groups) :
        \A i, j \in 1..Len(f) : i < j => f[i].traces >= f[j].traces}

\* The StatsOverview returned.
StatsOverview(input, window, summary, byUseCase) ==
    [tenantId |-> input.tenantId,
     environment |-> IF Truthy(input.environment) THEN input.environment
                     ELSE Undefined,
     from |-> toISOString(window.from),
     to |-> toISOString(window.to),
     summary |-> summary,
     byUseCase |-> byUseCase]

----------------------------------------------------------------------------
(* api/statsRoutes.ts: GET /stats/overview *)

\* Query strings that pass overviewStatsSchema: a tenant, an environment
\* that is given, empty or left out, and a window given in part or not.
OverviewInputs ==
    {[tenantId |-> "t1", environment |-> Undefined, from |-> <<>>, to |-> <<>>],
     [tenantId |-> "t1", environment |-> "prd", from |-> <<>>, to |-> <<>>],
     [tenantId |-> "t1", environment |-> "", from |-> <<1>>, to |-> <<>>],
     [tenantId |-> "t1", environment |-> Undefined, from |-> <<>>, to |-> <<0>>],
     [tenantId |-> "t2", environment |-> "dev", from |-> <<0>>, to |-> <<1>>]}

\* The catch block of the route:
\* { error: 'internal_error', message: 'Unable to calculate statistics' }
internal_error ==
    [error |-> "internal_error", message |-> "Unable to calculate statistics"]

\* getOverviewStats up to its second query: the window is fixed, query 1
\* runs (or fails, and the route answers 500) and the summary is made.
\* `seen` keeps the tables query 1 read.  One request is followed at a time.
OverviewSummary ==
    \E input \in OverviewInputs, db \in DbAnswers :
        LET window == DefaultWindow(input)
            summary == StatsSummary(input, window)
        IN
        /\ \A c \in awaiting : c.op # "overview"
        /\ IF queryRejects(db)
           THEN /\ last' = [op |-> "overview", input |-> input,
                            window |-> window, rejected |-> TRUE,
                            quiet |-> TRUE, status |-> 500,
                            body |-> internal_error]
                              @@ ReturnOrRethrow(TRUE, Undefined)
                /\ UNCHANGED awaiting
           ELSE /\ last' = [op |-> "overviewSummary", input |-> input,
                            window |-> window, summary |-> summary]
                /\ awaiting' = awaiting \cup
                      {[op |-> "overview", input |-> input, window |-> window,
                        summary |-> summary,
                        seen |-> <<traces, model_calls, agent_calls>>]}
        /\ SelectOnly
        /\ UNCHANGED <<pool, imports, uuids, now, probe, migrations, applied,
                       migrators, logger>>

\* The rest of getOverviewStats: query 2 runs (or fails: 500), byUseCase is
\* made and the route answers 200.  `quiet` records that the tables were, at
\* query 2, as query 1 had read them.
OverviewByUseCase ==
    \E call \in {c \in awaiting : c.op = "overview"}, db \in DbAnswers :
    \E byUseCase \in OrderByTracesDesc(UseCaseStats(call.input, call.window)) :
        LET rejected == queryRejects(db)
            result == ReturnOrRethrow(rejected,
                         StatsOverview(call.input, call.window, call.summary,
                                       byUseCase))
        IN
        /\ awaiting' = awaiting \ {call}
        /\ last' = [op |-> "overview", input |-> call.input,
                    window |-> call.window, rejected |-> rejected,
                    quiet |-> call.seen = <<traces, model_calls, agent_calls>>,
                    status |-> Responds(result, 200),
                    body |-> IF rejected THEN internal_error ELSE NoError]
                      @@ result
        /\ SelectOnly
        /\ UNCHANGED <<pool, imports, uuids, now, probe, migrations, applied,
                       migrators, logger>>

\* A store that earlier requests filled: at instant 0 a trace of tenant t1
\* was started and one model call and one agent call were logged for it;
\* the clock now reads 1.
InitStats ==
    /\ pool = initDb
    /\ policies = {}
    /\ imports = {}
    /\ now = 1
    /\ traces =
          {[TraceRow(randomUUID(0), TraceMeta("t1", "uc2", "dev"))
              EXCEPT !.created_at = 0]}
    /\ model_calls =
          {[ModelCallRow("u0m", randomUUID(0), log) EXCEPT !.created_at = 0] :
              log \in {l \in ModelCallLogs : l.prompt.len = 12}}
    /\ agent_calls =
          {[AgentCallRow("u0a", randomUUID(0), log) EXCEPT !.created_at = 0] :
              log \in AgentCallLogs}
    /\ audit_events = {}
    /\ uuids = 0
    /\ awaiting = {}
    /\ Migrated
    /\ probe = NoProbe
    /\ last = Started
    /\ logger = NewLogger(Undefined)

NextStats ==
    \/ StartTrace \/ LogModelCall \/ LogAgentCall
    \/ OverviewSummary \/ OverviewByUseCase

SpecStats == InitStats /\ [][NextStats]_vars

----------------------------------------------------------------------------
(* server.ts: every route served over one store *)

\* The store of InitStats with an audit event written for its trace too,
\* in a run of the server that has one UUID left to draw within MaxUuid.
InitEvents ==
    /\ pool = initDb
    /\ policies = {}
    /\ imports = {}
    /\ now = 1
    /\ traces =
          {[TraceRow(randomUUID(0), TraceMeta("t1", "uc2", "dev"))
              EXCEPT !.created_at = 0]}
    /\ model_calls =
          {[ModelCallRow("u0m", randomUUID(0), log) EXCEPT !.created_at = 0] :
              log \in {l \in ModelCallLogs : l.prompt.len = 12}}
    /\ agent_calls =
          {[AgentCallRow("u0a", randomUUID(0), log) EXCEPT !.created_at = 0] :
              log \in AgentCallLogs}
    /\ audit_events =
          {[AuditEventRow("u0e", randomUUID(0), log) EXCEPT !.created_at = 0] :
              log \in AuditEventLogs}
    /\ uuids = MaxUuid - 1
    /\ awaiting = {}
    /\ Migrated
    /\ probe = NoProbe
    /\ last = Started
    /\ logger = NewLogger(Undefined)

\* start, log, end, decide, import and overview requests in any order.
NextStore ==
    \/ StartTrace \/ LogModelCall \/ LogAgentCall \/ LogAuditEvent \/ EndTrace
    \/ Decide \/ ImportBegin \/ ImportInsert
    \/ OverviewSummary \/ OverviewByUseCase

SpecStore == InitEvents /\ [][NextStore]_vars

\* The ledger of a trace that may be ended: over the store of InitEvents the
\* trace is ended, once or again, and events are logged, in any order.
NextAppend ==
    \/ EndTrace \/ LogModelCall \/ LogAgentCall \/ LogAuditEvent

SpecAppend == InitEvents /\ [][NextAppend]_vars

----------------------------------------------------------------------------
(* A trace from its start to the overview: traces are started, model calls *)
(* are logged, traces are ended and overviews are asked, in any order.     *)

NextJourney ==
    \/ StartTrace \/ LogModelCall \/ EndTrace
    \/ OverviewSummary \/ OverviewByUseCase

SpecJourney == InitEvents /\ [][NextJourney]_vars

----------------------------------------------------------------------------
(* The routes on any request body: schema.parse(req.body) first, and for a *)
(* ZodError the answer 400 with error.errors as details.                    *)

\* z.string(): a string is given.
zString(v) == v # Undefined /\ v # Null

\* z.string().min(1)
zStringMin1(v) == zString(v) /\ v # ""

\* z.string().uuid(): the text has the form of a UUID.
zUuid(v) == zString(v) /\ \E k \in 0..(MaxUuid + 1) : v = randomUUID(k)

\* The issues of decideSchema on a body, by path; none when it passes.
decideSchema(body) ==
    {k \in {"tenantId"} : ~zStringMin1(body[k])}
      \cup {k \in InputKeys : body[k] = Null}

\* The issues of a rules element but for its decision.effect.
RuleIssues(body, i) ==
    {"rules." \o ToString(i) \o "." \o k :
        k \in {f \in {"name"} : ~zStringMin1(body.rules[i].name)}
               \cup {f \in {"priority"} : body.rules[i].priority \notin Int}}

\* importPoliciesSchema with decision.effect: z.string().
importPoliciesSchemaAnyEffect(body) ==
    {k \in {"tenantId"} : ~zStringMin1(body.tenantId)}
      \cup {k \in {"version"} : ~zString(body.version)}
      \cup UNION {RuleIssues(body, i) : i \in 1..Len(body.rules)}

\* The issues of importPoliciesSchema on a body.
importPoliciesSchema(body) ==
    {k \in {"tenantId"} : ~zStringMin1(body.tenantId)}
      \cup {k \in {"version"} : ~zString(body.version)}
      \cup UNION {RuleIssues(body, i) : i \in 1..Len(body.rules)}
      \cup {"rules." \o ToString(i) \o ".decision.effect" :
               i \in {j \in 1..Len(body.rules) :
                         body.rules[j].decision.effect \notin PolicyEffect}}

\* The issues of startTraceSchema on a body.
startTraceSchema(body) == {k \in DOMAIN body : ~zStringMin1(body[k])}

\* The issues of modelCallSchema on a body.
modelCallSchema(traceId, log) ==
    {k \in {"traceId"} : ~zUuid(traceId)}
      \cup {k \in {"provider", "model", "stepName"} : ~zStringMin1(log[k])}
      \cup {k \in {"tokensInput", "tokensOutput"} :
               log[k] # <<>> /\ log[k][1] <= 0}
      \cup {k \in {"latencyMs"} : log.latencyMs < 0}

\* The issues of endTraceSchema on a body.
endTraceSchema(traceId, body) ==
    {k \in {"traceId"} : ~zUuid(traceId)}
      \cup {k \in {"status"} : body.status \notin TraceStatus}

\* A rule whose effect is none of the five.
RuleBlock ==
    [RuleApproveDba EXCEPT !.decision = DecisionObject("block", Undefined,
                                                       Undefined)]

\* Bodies of POST /policies/decide: those of DecideInputs, and one without
\* tenantId and one with an empty tenantId.
DecideRequests ==
    DecideInputs
      \cup {[input EXCEPT !.tenantId = t] :
               input \in {i \in DecideInputs : i.environment = Undefined},
               t \in {Undefined, ""}}

\* A rule whose match carries a key that is no criterion: it passes
\* match: z.record(z.any()).
RuleRegion ==
    [name |-> "eu-only", priority |-> 5,
     match |-> [MatchObject(Undefined, Undefined) EXCEPT !["region"] = "eu"],
     decision |-> DecisionObject("deny", Undefined, Undefined)]

\* A rule whose match names the agent under the camelCase key of the
\* decision input, which is no key of PolicyMatch.
RuleCamelAgent ==
    [name |-> "web-agent", priority |-> 5,
     match |-> [MatchObject(Undefined, Undefined)
                  EXCEPT !["agentId"] = "agent-web"],
     decision |-> DecisionObject("deny", Undefined, Undefined)]

\* Bodies of POST /policies/import: those of ImportBodies, two whose rule
\* has a match with another key, one without tenantId, and one of tenant t1
\* with an effect outside the enum.
ImportRequests ==
    ImportBodies
      \cup {[tenantId |-> "t2", version |-> "v1", rules |-> <<RuleRegion>>],
             [tenantId |-> "t2", version |-> "v1",
              rules |-> <<RuleCamelAgent>>],
             [tenantId |-> Undefined, version |-> "v1",
              rules |-> <<RuleApproveDba>>],
             [tenantId |-> "t1", version |-> "v1", rules |-> <<RuleBlock>>]}

\* Bodies of POST /traces/start: those of StartBodies and one without
\* tenantId.
StartRequests == StartBodies \cup {TraceMeta(Undefined, "uc1", "prd")}

\* The traceId of a body: one that passes the schema, or a text that is no
\* UUID.
TraceIdTexts == TraceIds \cup {"trace-1"}

\* The status and resultSummary of a body of POST /traces/end: those of
\* EndBodies and a status outside the enum.
EndRequests ==
    EndBodies \cup {[status |-> "done", resultSummary |-> Undefined]}

\* The catch block for a ZodError:
\* res.status(400).json({ error: 'Validation error', details: error.errors })
ValidationError(route, request, issues) ==
    /\ last' = [op |-> "invalid", route |-> route, request |-> request,
                status |-> 400,
                body |-> [error |-> "Validation error", details |-> issues]]
    /\ UNCHANGED <<pool, policies, imports, traces, model_calls, agent_calls,
                   audit_events, uuids, awaiting, now, probe, migrations,
                   applied, migrators, logger>>

\* POST /policies/decide
PostDecide ==
    \E body \in DecideRequests :
        IF decideSchema(body) # {}
        THEN ValidationError("decide", body, decideSchema(body))
        ELSE DecideOn(body)

\* POST /policies/import, up to the issue of its INSERTs
PostImport ==
    \E body \in ImportRequests :
        IF importPoliciesSchema(body) # {}
        THEN ValidationError("import", body, importPoliciesSchema(body))
        ELSE ImportBeginOn(body)

\* POST /traces/start
PostStart ==
    \E body \in StartRequests :
        IF startTraceSchema(body) # {}
        THEN ValidationError("startTrace", body, startTraceSchema(body))
        ELSE StartTraceOn(body)

\* POST /traces/model-call
PostModelCall ==
    \E traceId \in TraceIdTexts, log \in ModelCallLogs :
        IF modelCallSchema(traceId, log) # {}
        THEN ValidationError("logModelCall", [traceId |-> traceId],
                             modelCallSchema(traceId, log))
        ELSE LogModelCallOn(traceId, log)

\* POST /traces/end
PostEnd ==
    \E traceId \in TraceIdTexts, body \in EndRequests :
        IF endTraceSchema(traceId, body) # {}
        THEN ValidationError("endTrace",
                             [traceId |-> traceId, status |-> body.status],
                             endTraceSchema(traceId, body))
        ELSE EndTraceOn(traceId, body)

\* The store of InitEvents after an import of one rule for tenant t1.
InitBoundary ==
    /\ pool = initDb
    /\ policies =
          {[id |-> "u0p", tenant_id |-> "t1", name |-> RuleApproveDba.name,
            priority |-> RuleApproveDba.priority,
            match |-> JSONstringify(RuleApproveDba.match),
            decision |-> JSONstringify(RuleApproveDba.decision),
            created_at |-> 0, updated_at |-> 0]}
    /\ imports = {}
    /\ now = 1
    /\ traces =
          {[TraceRow(randomUUID(0), TraceMeta("t1", "uc2", "dev"))
              EXCEPT !.created_at = 0]}
    /\ model_calls =
          {[ModelCallRow("u0m", randomUUID(0), log) EXCEPT !.created_at = 0] :
              log \in {l \in ModelCallLogs : l.prompt.len = 12}}
    /\ agent_calls = {}
    /\ audit_events = {}
    /\ uuids = MaxUuid - 1
    /\ awaiting = {}
    /\ Migrated
    /\ probe = NoProbe
    /\ last = Started
    /\ logger = NewLogger(Undefined)

NextBoundary ==
    \/ PostDecide \/ PostImport \/ ImportInsert
    \/ PostStart \/ PostModelCall \/ PostEnd

SpecBoundary == InitBoundary /\ [][NextBoundary]_vars

----------------------------------------------------------------------------
(* server.ts: the middleware stack.  A path is the sequence of its         *)
(* segments: /health/health is <<"health", "health">>.                      *)

\* router.get / router.post of each router: method, path within the router
\* and handler.
healthRoutes ==
    {[method |-> "GET", path |-> <<"health">>, handler |-> "health"]}

tracesRoutes ==
    {[method |-> "POST", path |-> <<p>>, handler |-> "traces/" \o p] :
        p \in {"start", "model-call", "agent-call", "audit", "end"}}

policiesRoutes ==
    {[method |-> "POST", path |-> <<p>>, handler |-> "policies/" \o p] :
        p \in {"decide", "import"}}

statsRoutes ==
    {[method |-> "GET", path |-> <<"overview">>, handler |-> "stats/overview"]}

\* app.use(prefix, router), in the order of server.ts.
Mounts ==
    <<[prefix |-> <<"health">>, router |-> healthRoutes],
      [prefix |-> <<"traces">>, router |-> tracesRoutes],
      [prefix |-> <<"policies">>, router |-> policiesRoutes]>>

\* The route of a mounted router that takes the request: the path starts
\* with the mount's prefix and the rest of it is the route's path.
RoutesTaking(method, path) ==
    {r \in UNION {{[handler |-> x.handler,
                     at |-> Mounts[i].prefix \o x.path,
                     method |-> x.method] : x \in Mounts[i].router} :
                    i \in 1..Len(Mounts)} :
        r.method = method /\ r.at = path}

\* The handler that answers a request: the CORS middleware for OPTIONS, a
\* route of a mounted router, the root endpoint, or the 404 handler.
Dispatch(method, path) ==
    IF method = "OPTIONS" THEN "cors"
    ELSE IF RoutesTaking(method, path) # {}
    THEN (CHOOSE r \in RoutesTaking(method, path) : TRUE).handler
    ELSE IF method = "GET" /\ path = <<>> THEN "root"
    ELSE "notFound"

\* The handlers that answer without a call of the store, and their answers.
StaticHandlers == {"cors", "health", "root", "notFound"}

StaticAnswer(handler, path) ==
    IF handler = "health"
    THEN [status |-> 200, body |-> [status |-> "ok"]]
    ELSE IF handler = "notFound"
    THEN [status |-> 404, body |-> [error |-> "Not found", path |-> path]]
    ELSE IF handler = "root"
    THEN [status |-> 200, body |-> [service |-> "NavriAIGP-Node"]]
    ELSE [status |-> 200, body |-> [status |-> "OK"]]

\* The requests explored: the documented paths and some others.
RequestPaths ==
    {<<>>, <<"health">>, <<"health", "health">>, <<"stats", "overview">>,
     <<"traces", "start">>, <<"policies">>, <<"overview">>}

\* A request that is answered without a call of the store.
Request ==
    \E method \in {"GET", "POST", "OPTIONS"}, path \in RequestPaths :
        LET handler == Dispatch(method, path) IN
        /\ handler \in StaticHandlers
        /\ last' = [op |-> "request", method |-> method, path |-> path,
                    handler |-> handler] @@ StaticAnswer(handler, path)
        /\ UNCHANGED <<pool, policies, imports, traces, model_calls,
                       agent_calls, audit_events, uuids, awaiting, now, probe,
                       migrations, applied, migrators, logger>>

NextServer == InitDb \/ CloseDb \/ StartTrace \/ Request

\* The server from its start: requests of any path while traces are
\* started and the pool is closed at shutdown.
SpecServer == InitTrace /\ [][NextServer]_vars

----------------------------------------------------------------------------
(* Claims about matchesPolicy (SpecMatch).                                  *)

\* The seven criteria: the key of the stored match and the field of the
\* decision input it is compared with.
Criteria ==
    {<<"use_case_id", "useCaseId">>, <<"environment", "environment">>,
     <<"agent_id", "agentId">>, <<"intent_name", "intentName">>,
     <<"risk_level", "riskLevel">>, <<"data_sensitivity", "dataSensitivity">>,
     <<"model", "model">>}

\* A criterion is present in a match when its key holds a value.
Present(v) == v # Undefined

\* The matcher's contract: every present criterion meets a present and
\* equal input field.
Satisfies(match, input) ==
    \A c \in Criteria :
        Present(match[c[1]]) =>
            Present(input[c[2]]) /\ input[c[2]] = match[c[1]]

\* C3: matchesPolicy(match, input) is true iff every criterion present in
\* match meets an input field that is present and exactly equal to it; an
\* absent criterion imposes no constraint and an absent input field never
\* satisfies a present criterion.
C3_MatchIffAllPresentCriteriaEqual ==
    last.op = "matchesPolicy" =>
        (last.value <=> Satisfies(probe.match, probe.input))

\* A match whose model criterion meets an absent input field, every other
\* criterion being satisfied, has been evaluated and rejected.
C3_Witness ==
    /\ last.op = "matchesPolicy"
    /\ last.value = FALSE
    /\ probe.match.model = "a" /\ probe.input.model = Undefined
    /\ \A c \in Criteria \ {<<"model", "model">>} :
           probe.match[c[1]] = "a" /\ probe.input[c[2]] = "a"

----------------------------------------------------------------------------
(* Claims about decide (SpecPolicy, SpecForeign).                           *)

\* The policies of the input's tenant whose criteria the input satisfies.
Matching(input) ==
    {p \in policies :
        p.tenant_id = input.tenantId /\ Satisfies(JSONparse(p.match), input)}

\* The decision of policy p with p's identity attached.
DecisionOf(p) ==
    LET d == JSONparse(p.decision) IN
    [effect |-> d.effect, overrideModel |-> d.overrideModel,
     overrideAgent |-> d.overrideAgent, reason |-> d.reason,
     policyId |-> p.id, policyName |-> p.name]

\* C1: when decide has loaded the tenant's policies and at least one of them
\* matches the input, it returns the decision of a matching policy of
\* maximal priority among the matching ones, with that policy's id and name;
\* the number of criteria plays no part.
C1_HighestPriorityMatchDecides ==
    last.op = "decide" /\ ~last.rejected /\ Matching(last.input) # {} =>
        /\ last.outcome = "return"
        /\ \E p \in Matching(last.input) :
              /\ \A q \in Matching(last.input) : q.priority <= p.priority
              /\ last.value = DecisionOf(p)

\* decide returned the decision of deny-prd (priority 20, one criterion)
\* for an input that approve-dba (priority 10, two criteria) matches too.
C1_Witness ==
    /\ last.op = "decide" /\ ~last.rejected
    /\ last.value.policyName = "deny-prd"
    /\ \E q \in Matching(last.input) : q.name = "approve-dba"

\* C2: when no policy of the input's tenant matches the input (the tenant may
\* have none), decide returns exactly { effect: allow }, with no policyId and
\* no policyName.
C2_NoMatchAllows ==
    last.op = "decide" /\ Matching(last.input) = {} =>
        /\ last.outcome = "return"
        /\ last.value = AllowDecision

\* decide has loaded the policies of a tenant that has some, none of which
\* matches, while a policy of the other tenant would match, and has returned
\* the default.
C2_Witness ==
    /\ last.op = "decide" /\ ~last.rejected
    /\ last.path = "default"
    /\ last.value = AllowDecision
    /\ \E p \in policies : p.tenant_id = last.input.tenantId
    /\ \E p \in policies :
          /\ p.tenant_id # last.input.tenantId
          /\ Satisfies(JSONparse(p.match), last.input)

\* Evaluating the loaded rows throws: a row whose match is JSON null is
\* reached before any row that matches.
EvaluationThrows(rows, input) ==
    \E i \in 1..Len(rows) :
        /\ rows[i].match = JsonNull
        /\ \A j \in 1..(i - 1) :
              rows[j].match # JsonNull /\ ~Satisfies(rows[j].match, input)

\* C4: decide never raises; when loading the policies fails (pool not
\* initialised or closed, store call failed) or evaluating a row throws, it
\* returns { effect: allow } with no policy identity.
C4_DecideFailsOpen ==
    last.op = "decide" =>
        /\ last.outcome = "return"
        /\ (last.rejected \/ EvaluationThrows(last.rows, last.input)
              => last.value = AllowDecision)

\* The evaluation threw on the foreign row while a policy of lower priority
\* matched the input, and decide returned the bare allow.
C4_Witness ==
    /\ last.op = "decide" /\ ~last.rejected
    /\ EvaluationThrows(last.rows, last.input)
    /\ \E p \in policies :
          /\ p.tenant_id = last.input.tenantId
          /\ JSONparse(p.match) # JsonNull
          /\ Satisfies(JSONparse(p.match), last.input)
    /\ last.value = AllowDecision

----------------------------------------------------------------------------
(* Claims about the trace lifecycle and the ledger (SpecTrace).             *)

Terminal == {"success", "error", "cancelled"}

LogOps == {"logModelCall", "logAgentCall", "logAuditEvent"}

TraceOps == {"startTrace", "endTrace"} \cup LogOps

\* C5: a trace's status starts as running and changes at most once, from
\* running to success, error or cancelled; once terminal, no later operation
\* changes it.
C5_StatusChangesAtMostOnce ==
    [][\A t2 \in traces' :
          /\ (\A t \in traces : t.id # t2.id) => t2.status = "running"
          /\ \A t \in traces :
                t.id = t2.id /\ t.status # t2.status =>
                    t.status = "running" /\ t2.status \in Terminal]_vars

\* C6: for every stored trace, ended_at is NULL iff status is running.
C6_EndedAtNullIffRunning ==
    \A t \in traces : (t.ended_at = <<>>) <=> (t.status = "running")

\* C7: ending a trace that is already terminal is rejected or changes
\* nothing: the ended_at and result_summary of the first end stay.
C7_SecondEndChangesNothing ==
    [][\A t \in traces : \A t2 \in traces' :
          t.id = t2.id /\ t.status \in Terminal =>
              t2.ended_at = t.ended_at
              /\ t2.result_summary = t.result_summary]_vars

\* C8: a successful startTrace adds exactly one trace row, whose id differs
\* from every existing trace id, with status running, ended_at NULL and the
\* caller's tenantId, intentName, useCaseId, riskLevel, dataSensitivity and
\* environment, and returns that id.
C8_StartAddsOneRunningTrace ==
    [][last'.op = "startTrace" /\ last'.outcome = "return" =>
          \E row \in traces' :
              /\ traces' = traces \cup {row}
              /\ \A t \in traces : t.id # row.id
              /\ row.status = "running"
              /\ row.ended_at = <<>>
              /\ row.tenant_id = last'.meta.tenantId
              /\ row.intent_name = last'.meta.intentName
              /\ row.use_case_id = last'.meta.useCaseId
              /\ row.risk_level = last'.meta.riskLevel
              /\ row.data_sensitivity = last'.meta.dataSensitivity
              /\ row.environment = last'.meta.environment
              /\ last'.value.traceId = row.id]_vars

\* A second trace, of tenant t2, has been started beside an ended trace of
\* tenant t1, and its id has been returned.
C8_Witness ==
    /\ last.op = "startTrace" /\ last.outcome = "return"
    /\ last.meta.tenantId = "t2"
    /\ \E t \in traces : t.id = last.value.traceId /\ t.status = "running"
    /\ \E t \in traces : t.tenant_id = "t1" /\ t.status = "success"

\* C9: when the store call of startTrace, logModelCall, logAgentCall,
\* logAuditEvent or endTrace fails, the operation raises to its caller (no
\* success answer) and the store is unchanged.
C9_TraceOpsRaiseStoreErrors ==
    [][last'.op \in TraceOps /\ last'.rejected =>
          /\ last'.outcome = "throw"
          /\ last'.status = 500
          /\ UNCHANGED <<traces, model_calls, agent_calls, audit_events,
                         policies>>]_vars

\* The store call of a logModelCall for a stored trace has failed, and the
\* call has raised.
C9_Witness ==
    /\ last.op = "logModelCall" /\ last.rejected
    /\ ForeignKeyOk(last.traceId)
    /\ last.outcome = "throw"

\* The ids of all stored events.
EventIds == {r.id : r \in model_calls} \cup {r.id : r \in agent_calls}
               \cup {r.id : r \in audit_events}

\* table2 is table with exactly one row added, keyed to traceId, whose id no
\* event had.
OneRowAdded(table, table2, traceId) ==
    \E row \in table2 :
        /\ row \notin table
        /\ table2 = table \cup {row}
        /\ row.trace_id = traceId
        /\ row.id \notin EventIds

\* C10: each successful logModelCall, logAgentCall or logAuditEvent adds
\* exactly one new row to its own event table, keyed to the given traceId
\* and with an id distinct from every existing event id.
C10_LogAddsOneRow ==
    [][last'.op \in LogOps /\ last'.outcome = "return" =>
          /\ last'.op = "logModelCall" =>
                /\ OneRowAdded(model_calls, model_calls', last'.traceId)
                /\ UNCHANGED <<agent_calls, audit_events>>
          /\ last'.op = "logAgentCall" =>
                /\ OneRowAdded(agent_calls, agent_calls', last'.traceId)
                /\ UNCHANGED <<model_calls, audit_events>>
          /\ last'.op = "logAuditEvent" =>
                /\ OneRowAdded(audit_events, audit_events', last'.traceId)
                /\ UNCHANGED <<model_calls, agent_calls>>]_vars

\* An agent call has been logged for a trace that already had a model call:
\* both rows are stored, under different ids.
C10_Witness ==
    /\ last.op = "logAgentCall" /\ last.outcome = "return"
    /\ \E a \in agent_calls : \E c \in model_calls :
          a.trace_id = last.traceId /\ c.trace_id = last.traceId /\ a.id # c.id

----------------------------------------------------------------------------
(* Further claims about the ledger.                                         *)

\* C11: a logModelCall, logAgentCall or logAuditEvent whose traceId is the
\* id of no stored trace fails with an error raised to the caller (the route
\* answers 500) and adds no row to any event table.
C11_UnknownTraceLogFails ==
    [][last'.op \in LogOps /\ (\A t \in traces : t.id # last'.traceId) =>
          /\ last'.outcome = "throw"
          /\ last'.status = 500
          /\ UNCHANGED <<model_calls, agent_calls, audit_events>>]_vars

\* An audit event for a UUID that is no trace's has been refused by the
\* store, which answered and holds another trace; nothing was written.
C11_Witness ==
    /\ last.op = "logAuditEvent" /\ last.outcome = "throw"
    /\ traces # {}
    /\ \A t \in traces : t.id # last.traceId
    /\ audit_events = {}

\* The first 10,000 characters of a text: the text itself when it is no
\* longer than that.
Truncated(text) ==
    IF text.len <= 10000 THEN text ELSE [ch |-> text.ch, len |-> 10000]

\* C13: logModelCall stores prompt and response cut to their first 10,000
\* characters: a text of at most 10,000 characters unchanged, a longer one as
\* its 10,000-character prefix; the length of a text never makes the call
\* fail (a call for a stored trace fails only when the store call fails).
C13_PromptAndResponseTruncated ==
    [][last'.op = "logModelCall" =>
          /\ last'.outcome = "return" =>
                \E row \in model_calls' \ model_calls :
                    /\ row.prompt = Truncated(last'.log.prompt)
                    /\ row.response = Truncated(last'.log.response)
                    /\ row.prompt.len <= 10000 /\ row.response.len <= 10000
          /\ last'.outcome = "throw" =>
                model_calls' = model_calls]_vars

\* A model call with a prompt of exactly 10,000 characters and a response of
\* 20,000 has been stored: the prompt whole, the response cut to 10,000.
C13_Witness ==
    /\ last.op = "logModelCall" /\ last.outcome = "return"
    /\ last.log.prompt.len = 10000 /\ last.log.response.len = 20000
    /\ \E row \in model_calls :
          /\ row.prompt = last.log.prompt
          /\ row.response = [ch |-> "r", len |-> 10000]

\* C14: log calls for the same stored trace that are in flight together both
\* succeed whatever the order in which the store runs their INSERTs (unless
\* the store call itself fails): each adds its own row, under its own id, and
\* removes none.
C14_ConcurrentLogsBothSucceed ==
    [][/\ last'.op \in LogOps
       /\ last'.raced
       /\ ~last'.storeFailed
       /\ ForeignKeyOk(last'.traceId)
       =>
       /\ last'.outcome = "return"
       /\ EventIds' = EventIds \cup {last'.id}
       /\ last'.id \notin EventIds
       /\ model_calls \subseteq model_calls'
       /\ agent_calls \subseteq agent_calls'
       /\ audit_events \subseteq audit_events']_vars

\* Two model calls for the same trace were in flight together and both have
\* returned: the table holds their two rows.
C14_Witness ==
    /\ last.op = "logModelCall" /\ last.raced /\ last.outcome = "return"
    /\ awaiting = {}
    /\ Migrated
    /\ \E a, b \in model_calls :
          a.id # b.id /\ a.trace_id = last.traceId /\ b.trace_id = last.traceId

----------------------------------------------------------------------------
(* Claims about import (SpecPolicy).                                        *)

\* The policies stored for a tenant.
PoliciesOf(tenantId) == {p \in policies : p.tenant_id = tenantId}

\* A stored policy is the rule: same name, priority, match and decision.
IsRule(p, rule) ==
    /\ p.name = rule.name
    /\ p.priority = rule.priority
    /\ JSONparse(p.match) = rule.match
    /\ JSONparse(p.decision) = rule.decision

\* C15: when an import answers 201 and no other import of the tenant was in
\* flight during it, the tenant's stored policies are exactly one per
\* element of rules (same name, priority, match, decision), none of the rows
\* stored before remains, and importedCount is the number of rules.
C15_ImportReplacesPolicySet ==
    last.op = "import" /\ last.status = 201 /\ ~last.overlapped =>
        LET mine == PoliciesOf(last.tenantId) IN
        /\ Cardinality(mine) = Len(last.rules)
        /\ \A i \in 1..Len(last.rules) :
              \E p \in mine : IsRule(p, last.rules[i])
        /\ \A p \in mine : \E i \in 1..Len(last.rules) : IsRule(p, last.rules[i])
        /\ \A p \in mine : \A d \in last.deleted : p.id # d.id
        /\ last.deleted \cap policies = {}
        /\ last.importedCount = Len(last.rules)

\* An import has replaced the policies an earlier import stored for the
\* tenant, and has answered 201.
C15_Witness ==
    /\ last.op = "import" /\ last.status = 201 /\ ~last.overlapped
    /\ last.deleted # {}
    /\ last.rules # <<>>
    /\ PoliciesOf(last.tenantId) # {}

\* C16: import is not atomic.  When an INSERT fails after the DELETE (no
\* other import of the tenant in flight), the import answers 500 and the
\* tenant is left with none of the rows it had before and with fewer rows
\* than rules: none, or some of the new ones.
C16_FailedImportLeavesPartialSet ==
    last.op = "import" /\ last.status = 500 /\ last.phase = "insert"
      /\ ~last.overlapped =>
        LET mine == PoliciesOf(last.tenantId) IN
        /\ {p.id : p \in mine} \subseteq last.ids
        /\ {p.id : p \in mine} # last.ids
        /\ last.deleted \cap policies = {}
        /\ last.importedCount = 0

\* The tenant had policies, an import deleted them, its INSERT failed, and
\* the tenant has no policy left.
C16_Witness ==
    /\ last.op = "import" /\ last.status = 500 /\ last.phase = "insert"
    /\ ~last.overlapped
    /\ last.deleted # {}
    /\ PoliciesOf(last.tenantId) = {}

\* The import of a tenant that is in flight alone: it has deleted the
\* tenant's rows and some of its INSERTs have yet to end.
ImportsInFlight(tenantId) ==
    {r \in imports : r.tenantId = tenantId /\ ~r.overlapped}

\* What decide returns for an input when the policies of its tenant are rows.
DecisionsOver(rows, input) ==
    {evaluatePolicies(f, input).value :
        f \in OrderByPriorityDesc({PolicyRecord(p) : p \in rows})}

\* The rows an import stores when all its INSERTs have run.
RowsOf(req) ==
    {st @@ [created_at |-> 0, updated_at |-> 0] : st \in req.stmts}

\* C17: decide is not isolated from an import of its tenant.  A decide whose
\* SELECT runs while the import is in flight evaluates what is stored at
\* that moment: none of the rows the import deleted, and of the new rows
\* those whose INSERT has already run.
C17_DecideReadsPartialImport ==
    last.op = "decide" /\ ~last.rejected =>
        \A req \in ImportsInFlight(last.input.tenantId) :
            LET read == {last.rows[i].id : i \in 1..Len(last.rows)} IN
            /\ read = {p.id : p \in PoliciesOf(last.input.tenantId)}
            /\ read \subseteq {st.id : st \in req.stmts}
            /\ read \cap {st.id : st \in req.pending} = {}
            /\ read \cap {d.id : d \in req.deleted} = {}

\* A decide has run between the DELETE and the INSERT of an import of its
\* tenant, and what it returned is neither a decision under the policies the
\* import deleted nor one under the policies the import stores.
C17_Witness ==
    /\ last.op = "decide" /\ ~last.rejected
    /\ \E req \in ImportsInFlight(last.input.tenantId) :
          /\ req.deleted # {}
          /\ last.value \notin DecisionsOver(req.deleted, last.input)
          /\ last.value \notin DecisionsOver(RowsOf(req), last.input)

\* The UUIDs randomUUID() has returned so far.
IssuedIds == {randomUUID(k) : k \in 1..uuids}

\* C18: every policy an import inserts has a freshly generated id: the
\* stored policies have pairwise distinct ids at every moment, an import
\* draws as many ids as it has rules, and none of them was drawn before (so
\* no id of an earlier import's policy comes back).
C18_PolicyIdsFresh ==
    [][/\ \A p, q \in policies' : p.id = q.id => p = q
       /\ last'.op = "importDelete" =>
             /\ last'.ids \cap IssuedIds = {}
             /\ last'.ids \cap {p.id : p \in policies} = {}
             /\ \A r \in imports :
                   last'.ids \cap {st.id : st \in r.stmts} = {}
             /\ \E r \in imports' :
                   /\ last'.ids = {st.id : st \in r.stmts}
                   /\ Cardinality(last'.ids) = Len(r.rules)]_vars

\* A second import has replaced the policy of a first one, under an id that
\* differs from the id of the row it deleted.
C18_Witness ==
    /\ last.op = "import" /\ last.status = 201
    /\ last.deleted # {} /\ last.ids # {}
    /\ \A d \in last.deleted : d.id \notin last.ids
    /\ {p.id : p \in PoliciesOf(last.tenantId)} = last.ids


----------------------------------------------------------------------------
(* Claims about getOverviewStats (SpecStats). *)

\* The traces an overview is about: those of the tenant, created within
\* [from, to], both ends included, and of the environment when one is given
\* (an empty environment is none).
TracesCounted(input, window) ==
    {t \in traces :
        /\ t.tenant_id = input.tenantId
        /\ window.from <= t.created_at /\ t.created_at <= window.to
        /\ (input.environment # Undefined /\ input.environment # "")
              => t.environment = input.environment}

\* The rows of an event table whose parent trace is one of `counted`.
EventsOf(table, counted) ==
    {e \in table : \E t \in counted : e.trace_id = t.id}

\* The three totals over the store as it is.
TotalsCounted(input, window) ==
    LET counted == TracesCounted(input, window) IN
    [totalTraces |-> Cardinality(counted),
     totalModelCalls |-> Cardinality(EventsOf(model_calls, counted)),
     totalAgentCalls |-> Cardinality(EventsOf(agent_calls, counted))]

\* C19: the summary of an overview holds the number of traces of the tenant
\* created within [from, to] (and of the environment, when given), and the
\* numbers of model-call and agent-call rows whose parent trace is one of
\* them, each row counted once; this holds when the summary is computed and
\* of the summary answered when the store did not change meanwhile.
C19_SummaryCountsMatchingRows ==
    /\ last.op = "overviewSummary"
         => last.summary = TotalsCounted(last.input, last.window)
    /\ (last.op = "overview" /\ last.outcome = "return" /\ last.quiet)
         => last.value.summary = TotalsCounted(last.input, last.window)

\* A summary over a window that leaves out a later trace, of a trace with two
\* model calls and one agent call.
C19_Witness ==
    /\ last.op = "overviewSummary"
    /\ last.input.to = <<0>>
    /\ Cardinality(traces) = 2
    /\ last.summary = [totalTraces |-> 1, totalModelCalls |-> 2,
                        totalAgentCalls |-> 1]


RECURSIVE SumOf(_, _)
\* The sum of one field over the groups of a byUseCase list.
SumOf(groups, field) ==
    IF groups = <<>> THEN 0
    ELSE Head(groups)[field] + SumOf(Tail(groups), field)

\* C20: in an overview answered over one store state, the byUseCase groups
\* partition the counted traces by use case (one group for each use case
\* that has a counted trace, holding the number of its traces), and the
\* traces, modelCalls and agentCalls of the groups add up to the three
\* totals of the summary.
C20_GroupsPartitionAndSumToSummary ==
    (last.op = "overview" /\ last.outcome = "return" /\ last.quiet) =>
        LET counted == TracesCounted(last.input, last.window)
            groups == last.value.byUseCase
            summary == last.value.summary
        IN
        /\ \A i, j \in 1..Len(groups) :
              groups[i].useCaseId = groups[j].useCaseId => i = j
        /\ {groups[i].useCaseId : i \in 1..Len(groups)}
              = {t.use_case_id : t \in counted}
        /\ \A i \in 1..Len(groups) :
              groups[i].traces =
                Cardinality({t \in counted :
                               t.use_case_id = groups[i].useCaseId})
        /\ SumOf(groups, "traces") = summary.totalTraces
        /\ SumOf(groups, "modelCalls") = summary.totalModelCalls
        /\ SumOf(groups, "agentCalls") = summary.totalAgentCalls

\* An overview answered with two groups, one of a trace that has model
\* calls and an agent call.
C20_Witness ==
    /\ last.op = "overview" /\ last.outcome = "return" /\ last.quiet
    /\ Len(last.value.byUseCase) = 2
    /\ last.value.summary.totalModelCalls = 2
    /\ last.value.summary.totalAgentCalls = 1


----------------------------------------------------------------------------
(* Claims about the ledger under every operation (SpecStore). *)

\* The event rows of the three ledger tables.
LedgerRows == model_calls \cup agent_calls \cup audit_events

\* C12: ledger events are immutable and append-only: no start, log, end,
\* decide, import or overview step changes a field of, or removes, a
\* model-call, agent-call or audit-event row that has been written.
C12_LedgerAppendOnly ==
    [][/\ model_calls \subseteq model_calls'
       /\ agent_calls \subseteq agent_calls'
       /\ audit_events \subseteq audit_events']_vars

\* The trace of the first three events has been ended after a further event
\* was logged for it.
C12_Witness ==
    /\ last.op = "endTrace" /\ last.outcome = "return"
    /\ \E t \in traces : t.id = randomUUID(0) /\ t.status # "running"
    /\ Cardinality({e \in LedgerRows : e.trace_id = randomUUID(0)}) = 4


----------------------------------------------------------------------------
(* Claims about a trace and the overviews that follow it (SpecJourney). *)

\* The model-call rows logged for trace T.
ModelCallsOf(T) == {c \in model_calls : c.trace_id = T.id}

\* The window of an overview contains the creation time of T.
WindowContains(window, T) ==
    window.from <= T.created_at /\ T.created_at <= window.to

\* The model-call rows of the traces other than T that an overview counts.
OtherModelCalls(input, window, T) ==
    EventsOf(model_calls, TracesCounted(input, window) \ {T})

\* C21 as stated: every overview for the tenant of a stored trace T whose
\* window contains T's creation time counts every model call logged for T,
\* each once, ended or not.
C21_OverviewCountsEveryModelCall ==
    last.op = "overviewSummary" =>
        \A T \in traces :
            (T.tenant_id = last.input.tenantId
               /\ WindowContains(last.window, T))
            => last.summary.totalModelCalls =
                 Cardinality(ModelCallsOf(T))
                   + Cardinality(OtherModelCalls(last.input, last.window, T))

\* C21, amended: every overview for the tenant of a stored trace T whose
\* window contains T's creation time and whose environment, when one is
\* given, is T's environment counts every model call logged for T, each
\* once, whether or not T has been ended.
C21_MatchingOverviewCountsEveryModelCall ==
    last.op = "overviewSummary" =>
        \A T \in traces :
            (T.tenant_id = last.input.tenantId
               /\ WindowContains(last.window, T)
               /\ (Truthy(last.input.environment)
                     => T.environment = last.input.environment))
            => last.summary.totalModelCalls =
                 Cardinality(ModelCallsOf(T))
                   + Cardinality(OtherModelCalls(last.input, last.window, T))

\* An overview counts the two model calls of a trace that has been ended.
C21_Witness ==
    /\ last.op = "overviewSummary"
    /\ last.summary.totalModelCalls = 2
    /\ \E T \in traces :
         /\ T.status # "running"
         /\ T.tenant_id = last.input.tenantId
         /\ WindowContains(last.window, T)
         /\ Cardinality(ModelCallsOf(T)) = 2


----------------------------------------------------------------------------
(* Claims about tenants and decide (SpecPolicy). *)

\* What decide can return for an input when all it may read is the set
\* `own` of its tenant's policies: the decision of the first match in some
\* order of `own` by priority, or the default, which is also the answer
\* when the query fails.
DecisionsFrom(own, input) ==
    LET matching == {p \in own : Satisfies(JSONparse(p.match), input)} IN
    {AllowDecision} \cup
    {DecisionOf(p) : p \in {q \in matching :
                               \A r \in matching : r.priority <= q.priority}}

\* What decide can return for an input in the present store.
DecideResults(input) ==
    {decide(input, rows, db).value :
        rows \in SelectPolicies(input.tenantId), db \in DbAnswers}

\* C22: the result of decide for a tenant depends only on that tenant's
\* stored policies and the input: in every store the decisions decide can
\* return are among those determined by the tenant's own policies, whatever
\* the other tenants' policies are, and a decision returned never carries
\* the id and name of a policy of another tenant.
C22_DecideReadsOwnTenantOnly ==
    /\ \A input \in DecideInputs :
          DecideResults(input)
            \subseteq DecisionsFrom(PoliciesOf(input.tenantId), input)
    /\ last.op = "decide" =>
          /\ last.value
                \in DecisionsFrom(PoliciesOf(last.input.tenantId), last.input)
          /\ \A p \in policies :
                p.tenant_id # last.input.tenantId => last.value.policyId # p.id

\* decide has returned the decision of a policy of its tenant while another
\* tenant holds a policy of no lower priority that the input satisfies.
C22_Witness ==
    /\ last.op = "decide" /\ ~last.rejected /\ last.path = "matched"
    /\ \E p \in PoliciesOf(last.input.tenantId) :
          /\ last.value = DecisionOf(p)
          /\ \E q \in policies :
                /\ q.tenant_id # last.input.tenantId
                /\ Satisfies(JSONparse(q.match), last.input)
                /\ q.priority >= p.priority


----------------------------------------------------------------------------
(* Claims about the migration runner (SpecMigrate). *)

\* The run that takes the step, as it was before the step.
ActingRun == migrators[last'.runner]

\* The run at hand found every migration file recorded when it started.
AllRecorded(run) == run.pc # "idle" /\ SqlFiles \subseteq run.appliedMigrations

\* C23: the migration runner is idempotent.  Over any number of runs, one
\* after another or overlapping, the SQL of each file is committed at most
\* once; a file that the run found recorded in the migrations table is
\* skipped; and a run that found every file recorded skips each of them,
\* applies nothing, changes neither the table nor the schema and ends with
\* code 0.
C23_MigrationsIdempotent ==
    [][/\ \A f \in SqlFiles : applied'[f] <= 1
       /\ \A f \in SqlFiles : applied'[f] > applied[f] => f \notin migrations
       /\ (ActingRun.pc = "loop" /\ ActingRun.migrationFiles # <<>>
             /\ Head(ActingRun.migrationFiles) \in ActingRun.appliedMigrations)
            => /\ last'.step = "skip"
               /\ UNCHANGED <<migrations, applied>>
       /\ (ActingRun.pc = "idle" /\ SqlFiles \subseteq migrations)
            => UNCHANGED <<migrations, applied>>
       /\ AllRecorded(ActingRun)
            => /\ UNCHANGED <<migrations, applied>>
               /\ last'.step \in {"skip", "done"}
               /\ last'.exit # 1
               /\ last'.aplicadas = 0]_vars

\* A run made after both files were applied has skipped both and has ended
\* with nothing applied.
C23_Witness ==
    /\ last.op = "migrate" /\ last.step = "done" /\ last.exit = 0
    /\ last.aplicadas = 0 /\ last.puladas = Cardinality(SqlFiles)
    /\ migrations = SqlFiles
    /\ \A f \in SqlFiles : applied[f] = 1


----------------------------------------------------------------------------
(* Claims about the answers to failures (SpecStore). *)

\* The boundary operations.
BoundaryOps ==
    {"startTrace", "logModelCall", "logAgentCall", "logAuditEvent",
     "endTrace", "decide", "import", "overview"}

\* The last step is a boundary operation whose call of the store failed.
StoreFailure ==
    /\ last.op \in BoundaryOps
    /\ IF last.op = "import" THEN last.status = 500 ELSE last.rejected

\* C25: every failure of a boundary operation that is not a validation
\* failure is answered with a generic server error, status 500, whose body
\* does not contain the message of the store's or the module's error.
C25_FailuresAnswerGenericError ==
    StoreFailure =>
        /\ last.status = 500
        /\ \A db \in DbAnswers : last.body.message # QueryError(db).message


----------------------------------------------------------------------------
(* Claims about validation (SpecBoundary). *)

\* A required text is missing or empty.
Missing(v) == v = Undefined \/ v = ""

\* The texts that are UUIDs.
UuidTexts == {"u" \o ToString(k) : k \in 0..(MaxUuid + 1)}

\* The tables and what is in flight on them.
StoreUnchanged ==
    UNCHANGED <<policies, imports, traces, model_calls, agent_calls,
                audit_events, uuids, awaiting>>

\* C24: a request that fails input validation is answered with a validation
\* error (status 400, the failing fields listed) and issues no store
\* operation: policies, traces and events stay as they are, so an invalid
\* import deletes nothing; and no step that runs decide, import, startTrace,
\* logModelCall or endTrace is made for a request without tenantId, with an
\* effect outside the five, or with a traceId that is not a UUID.
C24_InvalidRequestsTouchNothing ==
    [][/\ last'.op = "invalid"
            => /\ last'.status = 400
               /\ last'.body.details # {}
               /\ StoreUnchanged
       /\ last'.op = "decide" => ~Missing(last'.input.tenantId)
       /\ last'.op \in {"import", "importDelete"}
            => /\ ~Missing(last'.tenantId)
               /\ \A i \in 1..Len(last'.rules) :
                     last'.rules[i].decision.effect \in PolicyEffect
       /\ last'.op = "startTrace" => ~Missing(last'.meta.tenantId)
       /\ last'.op \in {"logModelCall", "endTrace"}
            => last'.traceId \in UuidTexts]_vars

\* An import of tenant t1 with an effect outside the five has been answered
\* 400 and the policy of t1 is still stored.
C24_Witness ==
    /\ last.op = "invalid" /\ last.route = "import" /\ last.status = 400
    /\ last.request.tenantId = "t1"
    /\ \E p \in policies : p.id = "u0p" /\ p.tenant_id = "t1"


----------------------------------------------------------------------------
(* Claims about ending a trace that was never started (SpecTrace). *)

\* C26: an end for a traceId that no startTrace returned surfaces a
\* not-found error: it does not report success.
C26_EndOfUnknownTraceFails ==
    (last.op = "endTrace" /\ \A t \in traces : t.id # last.traceId) =>
        /\ last.outcome = "throw"
        /\ last.status # 200


----------------------------------------------------------------------------
(* Claims about the paths the server answers (SpecServer). *)

\* C27: while the server runs, GET /health is answered by the health
\* handler with status 200 and a body whose status is ok, whatever the
\* store holds.
C27_HealthAnswersOk ==
    (last.op = "request" /\ last.method = "GET" /\ last.path = <<"health">>)
        => /\ last.handler = "health"
           /\ last.status = 200
           /\ last.body = [status |-> "ok"]

\* C28: GET /stats/overview reaches the stats route and is not answered by
\* the not-found handler.
C28_StatsOverviewIsRouted ==
    (last.op = "request" /\ last.method = "GET"
       /\ last.path = <<"stats", "overview">>)
        => /\ last.handler = "stats/overview"
           /\ last.status # 404


----------------------------------------------------------------------------
(* Claims about the criteria of stored policies (SpecBoundary). *)

\* The keys a match object carries.
KeysOf(match) == {k \in DOMAIN match : match[k] # Undefined}

\* C29: the match of every stored policy carries only criteria of the
\* decision-input schema (use case, environment, agent, intent name, risk
\* level, data sensitivity, model): import stores no match with another key.
C29_StoredMatchHasOnlyCriteria ==
    \A p \in policies : KeysOf(JSONparse(p.match)) \subseteq MatchKeys


----------------------------------------------------------------------------
(* Claims about the determinism of decide (SpecPolicy). *)

\* The matching policies of maximal priority.
TopMatching(input) ==
    {p \in Matching(input) :
        \A q \in Matching(input) : q.priority <= p.priority}

\* The decisions decide returns for an input over the orders in which the
\* store may return the tenant's policies, when the store answers.
DecisionsReturned(input) ==
    {evaluatePolicies(rows, input).value :
        rows \in SelectPolicies(input.tenantId)}

\* The first of the rows read that the input satisfies.
FirstMatch(rows, input) ==
    rows[CHOOSE i \in 1..Len(rows) :
            /\ Satisfies(rows[i].match, input)
            /\ \A j \in 1..(i - 1) : ~Satisfies(rows[j].match, input)]

\* C30: for a fixed stored policy set and input, and a store that answers,
\* decide returns one and the same decision in every run whenever the
\* matching policies of maximal priority are at most one policy; the result
\* varies only when two or more matching policies share the maximal
\* priority, over the decisions of exactly those, and the one returned is
\* that of whichever of them the store returned first.
C30_DecideDeterministicUpToTies ==
    /\ \A input \in DecideInputs :
          /\ Cardinality(TopMatching(input)) <= 1
                => Cardinality(DecisionsReturned(input)) = 1
          /\ Cardinality(TopMatching(input)) >= 2
                => DecisionsReturned(input)
                     = {DecisionOf(p) : p \in TopMatching(input)}
    /\ (last.op = "decide" /\ ~last.rejected
          /\ Cardinality(TopMatching(last.input)) >= 2)
         => /\ FirstMatch(last.rows, last.input).id
                 \in {p.id : p \in TopMatching(last.input)}
            /\ last.value.policyId = FirstMatch(last.rows, last.input).id

\* decide has returned one of two matching policies of the same priority.
C30_Witness ==
    /\ last.op = "decide" /\ ~last.rejected
    /\ Cardinality(TopMatching(last.input)) = 2
    /\ Cardinality(DecisionsReturned(last.input)) = 2
    /\ last.value.policyId \in {p.id : p \in TopMatching(last.input)}


----------------------------------------------------------------------------
(* Claims about what each operation leaves alone (SpecStore, SpecLedger,  *)
(* SpecTrace, SpecPolicy).                                                *)

\* The stored policies, traces and ledger events.
Stored == <<policies, traces, model_calls, agent_calls, audit_events>>

\* The steps of the read operations: decide, and the two queries of
\* getOverviewStats.
ReadOps == {"decide", "overviewSummary", "overview"}

\* C31: decide and overview never modify the store: over every step of
\* either, whether it ends with a result or (overview) with an error, the
\* stored policies, traces and ledger events are those before the step.
C31_ReadsLeaveStoreUnchanged ==
    [][last'.op \in ReadOps => Stored' = Stored]_vars

\* A decide has returned a stored policy's decision over a store that
\* holds traces and ledger events.
C31_Witness ==
    /\ last.op = "decide" /\ last.path = "matched"
    /\ policies # {} /\ traces # {} /\ model_calls # {}


\* The call was refused by a constraint of the schema, not by a failure of
\* the pool or of the connection.
RefusedByConstraint(answer) ==
    /\ answer.rejected
    /\ answer.body.message = "violates constraint of the schema"

\* C32: a logModelCall, logAgentCall or logAuditEvent for an existing trace
\* is never refused on account of the trace, whatever its status, ended
\* included (it fails only when the pool or the connection does); it leaves
\* every trace row and every event row written before as it was, and adds
\* at most its own row.
C32_LogAppendsWhateverStatus ==
    [][last'.op \in LogOps =>
          /\ (\E t \in traces : t.id = last'.traceId)
                => ~RefusedByConstraint(last')
          /\ traces' = traces
          /\ model_calls \subseteq model_calls'
          /\ agent_calls \subseteq agent_calls'
          /\ audit_events \subseteq audit_events'
          /\ Cardinality((model_calls' \ model_calls)
                            \cup (agent_calls' \ agent_calls)
                            \cup (audit_events' \ audit_events))
                = IF last'.rejected THEN 0 ELSE 1]_vars

\* An audit event has been logged for a trace that had been ended and that
\* keeps its three earlier events.
C32_Witness ==
    /\ last.op = "logAuditEvent" /\ last.outcome = "return"
    /\ \E t \in traces : t.id = last.traceId /\ t.status \in Terminal
    /\ Cardinality({e \in LedgerRows : e.trace_id = last.traceId}) = 4


\* Row t2 is row t but for its status, ended_at and result_summary.
SameButEnd(t, t2) ==
    [t2 EXCEPT !.status = t.status, !.ended_at = t.ended_at,
               !.result_summary = t.result_summary] = t

\* C33: endTrace(traceId, ...) changes at most the status, ended_at and
\* result_summary of the trace whose id is traceId: no trace is added or
\* removed, every other trace row, every ledger event and every policy is
\* unchanged, and that trace keeps its id, tenant, intent name, use case,
\* risk level, data sensitivity, environment and created_at; when no trace
\* has that id nothing changes.
C33_EndChangesOnlyItsTrace ==
    [][last'.op = "endTrace" =>
          /\ UNCHANGED <<policies, model_calls, agent_calls, audit_events>>
          /\ Cardinality(traces') = Cardinality(traces)
          /\ \A t \in traces :
                IF t.id = last'.traceId
                THEN \E t2 \in traces' : t2.id = t.id /\ SameButEnd(t, t2)
                ELSE t \in traces'
          /\ (\A t \in traces : t.id # last'.traceId) => traces' = traces]_vars

\* One of two stored traces has been ended; the other is still running.
C33_Witness ==
    /\ last.op = "endTrace" /\ last.outcome = "return"
    /\ \E t \in traces : t.id = last.traceId /\ t.status = "success"
                            /\ t.ended_at # <<>>
    /\ \E t \in traces : t.id # last.traceId /\ t.status = "running"


\* C34: referential integrity: in every reachable state every model-call,
\* agent-call and audit-event row carries the id of a stored trace, after
\* start, log and end operations in any order.
C34_EventsReferenceStoredTraces ==
    \A e \in LedgerRows : \E t \in traces : t.id = e.trace_id

\* The trace of a stored event has been ended, and the event still
\* references it.
C34_Witness ==
    /\ last.op = "endTrace" /\ last.outcome = "return"
    /\ \E e \in LedgerRows : e.trace_id = last.traceId
    /\ \E t \in traces : t.id = last.traceId /\ t.status \in Terminal


\* The steps of an import: its DELETE, each of its INSERTs, its answer.
ImportOps == {"importDelete", "importInsert", "import"}

\* The stored policies of the tenants other than tenantId.
PoliciesOfOthers(table, tenantId) == {p \in table : p.tenant_id # tenantId}

\* C35: an import for tenantId affects only policies of tenantId: over
\* every step of the import, whether it succeeds or fails, the policies of
\* every other tenant, all traces and all ledger events are unchanged.
C35_ImportTouchesOwnTenantOnly ==
    [][last'.op \in ImportOps =>
          /\ PoliciesOfOthers(policies', last'.tenantId)
                = PoliciesOfOthers(policies, last'.tenantId)
          /\ UNCHANGED <<traces, model_calls, agent_calls, audit_events>>]_vars

\* An import of tenant t2 has answered 201 and its rule is stored beside
\* the policy of tenant t1, the trace and its model call.
C35_Witness ==
    /\ last.op = "import" /\ last.status = 201 /\ last.tenantId = "t2"
    /\ \E p \in policies : p.tenant_id = "t2"
    /\ \E p \in policies : p.tenant_id = "t1"
    /\ traces # {} /\ model_calls # {}


\* The .sql files whose name comes before the name of file f.
FilesBefore(f) ==
    {FileName(d) : d \in {e \in MigrationsDir :
        /\ e.ext = "sql"
        /\ \E g \in MigrationsDir :
              g.ext = "sql" /\ FileName(g) = f /\ e.n < g.n}}

\* C36: the runner applies pending files in ascending file-name order (a
\* file is committed only when every file of a lesser name is recorded);
\* a migration is recorded if and only if its SQL was committed, in the one
\* transaction; a migration that fails is rolled back and not recorded, the
\* run applies no later file and ends with exit code 1; and a run that ends
\* with code 0 leaves every file recorded.
C36_MigrationsInOrderAndAtomic ==
    [][/\ \A f \in SqlFiles :
             /\ (f \in migrations') <=> (applied'[f] >= 1)
             /\ (applied'[f] > applied[f]) <=> (f \in migrations' \ migrations)
             /\ applied'[f] > applied[f] =>
                    /\ FilesBefore(f) \subseteq migrations
                    /\ last'.step = "commit" /\ last'.file = f
       /\ last'.step = "rollback" =>
             /\ UNCHANGED <<migrations, applied>>
             /\ last'.exit = 1
             /\ migrators'[last'.runner] = NotRunning
       /\ (last'.step = "done" /\ last'.exit = 0) =>
             SqlFiles \subseteq migrations']_vars

\* A run has committed and recorded its first file, and its second file
\* has failed: it is rolled back and unrecorded, and the run has ended
\* with code 1.
C36_Witness ==
    /\ last.op = "migrate" /\ last.step = "rollback" /\ last.exit = 1
    /\ last.aplicadas = 1
    /\ Cardinality(migrations) = 1
    /\ last.file \notin migrations
    /\ FilesBefore(last.file) = migrations


----------------------------------------------------------------------------
(* Claims about the log of decide (SpecLog). *)

\* The message decide logs for each decision path.
PathMessage ==
    [matched |-> "Policy matched",
     default |-> "No policy matched, defaulting to allow",
     fallback |-> "Failed to evaluate policies"]

\* The decision paths the lines of a console name.
PathsLogged(console) ==
    {p \in DOMAIN PathMessage :
        \E i \in 1..Len(console) : console[i].message = PathMessage[p]}

\* C37: every decide call emits a log record of the decision path taken,
\* exactly one of matched, default and fallback, at every configured log
\* level, so that a fail-open allow differs in the log from an allow given
\* because no policy matched.
C37_DecideLogsItsPath ==
    last.op = "decide" => PathsLogged(last.console) = {last.path}


----------------------------------------------------------------------------
(* Claims about imports that overlap (SpecPolicy). *)

\* The ids of the stored policies of a tenant.
StoredIds(tenantId) == {p.id : p \in PoliciesOf(tenantId)}

\* The last step is the 201 of an import with rules that one other import
\* of its tenant, with rules too, overlapped, and no third: the DELETEs of
\* both ran before any INSERT of either, and the other answered 201 before.
BothRacedAndSucceeded(p) ==
    /\ last.op = "import" /\ last.status = 201
    /\ last.peers = {p}
    /\ p.raced /\ p.status = 201
    /\ last.ids # {} /\ p.ids # {}

\* C38: two imports of one tenant that run at once are not serialised:
\* when the DELETEs of both have run before any INSERT of either and both
\* have reported success, the tenant's policy set holds the rows of both
\* imports, each rule of either among them, and is the rule set of neither.
C38_RacingImportsLeaveBothRuleSets ==
    \A p \in (IF last.op = "import" THEN last.peers ELSE {}) :
        BothRacedAndSucceeded(p) =>
            /\ StoredIds(last.tenantId) = last.ids \cup p.ids
            /\ StoredIds(last.tenantId) # last.ids
            /\ StoredIds(last.tenantId) # p.ids
            /\ \A i \in 1..Len(last.rules) :
                  \E q \in PoliciesOf(last.tenantId) :
                      q.id \in last.ids /\ IsRule(q, last.rules[i])
            /\ Cardinality(PoliciesOf(last.tenantId))
                  > Len(last.rules)

\* Two imports of tenant t1 with different rules raced and both answered
\* 201: the tenant's policies are the two rules together.
C38_Witness ==
    /\ \E p \in (IF last.op = "import" THEN last.peers ELSE {}) :
          BothRacedAndSucceeded(p)
    /\ last.tenantId = "t1"
    /\ Cardinality({q.name : q \in PoliciesOf("t1")}) = 2


----------------------------------------------------------------------------
(* Claims about the keys matchesPolicy reads (SpecBoundary). *)

\* A match with every key that is no key of PolicyMatch left out.
CriteriaOnly(match) ==
    [k \in DOMAIN match |-> IF k \in MatchKeys THEN match[k] ELSE Undefined]

\* The match holds none of the seven keys matchesPolicy reads.
NoCriterion(match) == KeysOf(match) \cap MatchKeys = {}

\* C39: matchesPolicy reads only the keys use_case_id, environment,
\* agent_id, intent_name, risk_level, data_sensitivity and model of a stored
\* match: any other key that import stored (a camelCase agentId, say) is no
\* constraint, so a policy whose match holds only such keys, or none,
\* matches every input of its tenant, and a decide of that tenant is
\* decided by a policy.
C39_OtherMatchKeysConstrainNothing ==
    /\ \A p \in policies : \A input \in DecideInputs :
          LET match == JSONparse(p.match) IN
          /\ matchesPolicy(match, input)
                = matchesPolicy(CriteriaOnly(match), input)
          /\ NoCriterion(match) => matchesPolicy(match, input)
    /\ (/\ last.op = "decide" /\ ~last.rejected
        /\ \E p \in PoliciesOf(last.input.tenantId) :
               NoCriterion(JSONparse(p.match)))
         => last.path = "matched"

\* A decide of tenant t2 for no agent has been decided by the stored
\* policy whose match holds only agentId: "agent-web".
C39_Witness ==
    /\ last.op = "decide" /\ last.path = "matched"
    /\ last.input.tenantId = "t2" /\ last.input.agentId = Undefined
    /\ last.value.policyName = "web-agent"
    /\ \E p \in PoliciesOf("t2") :
          KeysOf(JSONparse(p.match)) = {"agentId"}

====
